---- MODULE Spec2Model ----
(***************************************************************************)
(* Model of the Tiki review crawler: the per-target checkpoint store       *)
(* (progress_store.py, class LinkProgress), the two-phase quota            *)
(* orchestrator (runner.py, Runner._crawl_one), the target sweep           *)
(* (Runner._process_group) and the retrying fetch client (api.py,          *)
(* TikiApi._get).                                                          *)
(*                                                                         *)
(* Quotas are scaled down (the shipped 100 / 250 / 500 become 5 / 10 / 15):*)
(* the order RD total < LinkProgress default < OTHER total and the         *)
(* divisibility by five are kept.                                          *)
(***************************************************************************)
EXTENDS Integers, Sequences, FiniteSets, TLC

VARIABLES
    file,           \* the persisted checkpoint document of the target (progress/<md5>.json)
    ck,             \* LinkProgress.data of the live LinkProgress object
    group_total,    \* the configured total of the target's group (RD_/OTHER_TOTAL_REVIEWS)
    up,             \* the upstream listing: per star filter, its pages and reported last page
    pc,             \* position of the process in run / _process_group / _crawl_one
    loop_s,         \* the loop variable s of the phase loops
    collected,      \* _crawl_one's list `collected` (rows by dedup key)
    taken_per_star, \* _crawl_one's dictionary `taken_per_star`
    seen_hashes,    \* _crawl_one's set `seen_hashes`
    reviews,        \* the page in flight: its items
    meta,           \* the page in flight: current_page / total_pages
    kept,           \* the accepted batch of the page in flight
    db,             \* dedup keys stored in the sink table (INSERT IGNORE)
    hist,           \* history: runs, crashes, failures, edits, per-key counting
    lastOp,         \* the last checkpoint-store call made by a direct caller (history)
    lastRet,        \* and the value it returned
    get_pc,         \* position of the current _get call (tenacity's retry loop)
    attempt_number, \* tenacity's attempt number of the current _get call
    responses,      \* history: the outcome of every request of the current _get call
    ua_idx,         \* _ua_rotator._idx
    proxy_idx,      \* _proxy_rotator._idx
    pools,          \* the values the two rotators were built on (identities, origins)
    clients,        \* the keys of the connection contexts created, in creation order
    sent,           \* history: identity and origin of every request attempt of the client
    catalog,        \* the target URLs of the catalog, in the order the sweep visits them
    sweep_i,        \* the index of the target at hand: the one the sweep is at, or the
                    \* one a direct caller's last call was on (0: none yet)
    disk,           \* the directory progress/: per path, the document of a target not at hand
    objs,           \* LinkProgress.data of the objects direct callers hold, per URL
    call_args,      \* the arguments a function is applied to on its own
    call_ret        \* and what it returned (<<>>: not applied yet)

Stars == 1..5

Range(f) == {f[i] : i \in DOMAIN f}

Max(a, b) == IF a >= b THEN a ELSE b

RECURSIVE SumOver(_, _)
SumOver(f, S) ==
    IF S = {} THEN 0
    ELSE LET x == CHOOSE y \in S : TRUE IN f[x] + SumOver(f, S \ {x})

(***************************************************************************)
(* config.py                                                               *)
(***************************************************************************)
RD_TOTAL_REVIEWS == 5

OTHER_TOTAL_REVIEWS == 15

split_per_star(total) == Max(1, total \div 5)

(***************************************************************************)
(* Target URLs: api.py _extract_product_id, progress_store.py progress_path *)
(***************************************************************************)
\* a URL by what the two regular expressions of _extract_product_id see in it:
\* p, the digits of "-p<digits>" before ".html" or the end (0: no such part),
\* and q, the digits of a product_id query parameter (0: none)
Url(slug, p, q) == [slug |-> slug, p |-> p, q |-> q]

\* https://tiki.vn/den-led-p1.html
UrlA == Url("den-led", 1, 0)

\* https://tiki.vn/quat?product_id=2
UrlB == Url("quat", 0, 2)

\* https://tiki.vn/khuyen-mai
UrlNoId == Url("khuyen-mai", 0, 0)

Urls == {UrlA, UrlB, UrlNoId}

\* the product id None
NoProductId == 0

\* _extract_product_id: the path pattern first, the query parameter second
extract_product_id(url) ==
    IF url.p # 0 THEN url.p
    ELSE IF url.q # 0 THEN url.q
    ELSE NoProductId

\* _hash_url: the md5 digest of the URL (its first eight hex digits shown)
hash_url(url) ==
    CASE url = UrlA -> "e38030b1"
      [] url = UrlB -> "1cc59336"
      [] url = UrlNoId -> "c4935380"

\* faulty variant: every URL is given the same file
progress_path_shared(url) == <<"progress", "links.json">>

\* progress_path: PROGRESS_DIR / "<digest>.json"
progress_path(url) == <<"progress", hash_url(url), ".json">>

Paths == {progress_path(url) : url \in Urls}

(***************************************************************************)
(* progress_store.py: LinkProgress                                         *)
(***************************************************************************)
\* LinkProgress.__init__ defaults: total_target = 250, per_star_target = 50 (scaled)
DEFAULT_TOTAL == 10

DEFAULT_PER_STAR == 2

\* "" : the only key that `if not h` skips
EmptyKey == 0

\* the "expected" targets dictionary of _load_or_init and ensure_targets
Expected(total_target, per_star_target) ==
    [per |-> [s \in Stars |-> per_star_target], total |-> total_target]

AllFalse == [s \in Stars |-> FALSE]

AllZero == [s \in Stars |-> 0]

\* no file on disk for the target; readable: json.load accepts the content
NoFile ==
    [exists |-> FALSE, readable |-> TRUE, completed |-> FALSE, targets |-> Expected(0, 0),
     counts |-> [per |-> AllZero, total |-> 0], pages_done |-> AllZero,
     exhausted |-> AllFalse, seen_hashes |-> [s \in Stars |-> <<>>]]

\* the `base` document _load_or_init writes when the file is absent
Base(total_target, per_star_target) ==
    [exists |-> TRUE, readable |-> TRUE, completed |-> FALSE,
     targets |-> Expected(total_target, per_star_target),
     counts |-> [per |-> AllZero, total |-> 0], pages_done |-> AllZero,
     exhausted |-> AllFalse, seen_hashes |-> [s \in Stars |-> <<>>]]

\* _save, lines 109-110, cut short: open(path, "w") has truncated the file and
\* json.dump has written none or a part of the document
Torn == [NoFile EXCEPT !.exists = TRUE, !.readable = FALSE]

\* _load_or_init: an existing document keeps everything but a stored plan that
\* differs from the constructor's, which is overwritten; a file json.load
\* rejects is replaced by `base` (except Exception: pass); all branches save.
load_or_init(f, default_total, default_per_star) ==
    IF f.exists /\ f.readable
    THEN IF f.targets # Expected(default_total, default_per_star)
         THEN [f EXCEPT !.targets = Expected(default_total, default_per_star)]
         ELSE f
    ELSE Base(default_total, default_per_star)

\* What a persisted document can hold in place of one substructure or of one
\* entry of it: part is the substructure, entry the key in it (0: the
\* substructure itself, 1..5 the star, 6 "total"), kind what is there instead:
\* nothing (key absent), null, a text that spells no number ("abc"), or a text
\* that spells one ("3").
Kinds == {"missing", "null", "text", "numeral"}

\* the number the "numeral" text spells
Numeral == 3

Damages ==
    {[part |-> p, entry |-> e, kind |-> k] :
        p \in {"counts", "pages_done", "exhausted", "seen_hashes"}, e \in 0..5, k \in Kinds}
    \cup {[part |-> "counts", entry |-> 6, kind |-> k] : k \in Kinds}

\* lines 37, 40, 50: int(x or 0) on what is found in place of an integer;
\* ok = FALSE: int() raises ValueError
int_or_0(kind) ==
    CASE kind \in {"missing", "null"} -> [ok |-> TRUE, v |-> 0]
      [] kind = "numeral" -> [ok |-> TRUE, v |-> Numeral]
      [] OTHER -> [ok |-> FALSE, v |-> 0]

\* line 60: bool(x) with False for an absent key; a non-empty text is true
bool_of(kind) == kind \in {"text", "numeral"}

\* _ensure_structures, lines 29-74, on document f damaged as dmg says:
\* ok = FALSE when a statement of it raises
ensure_structures(f, dmg) ==
    LET e == dmg.entry
        n == int_or_0(dmg.kind)
    IN CASE dmg.part = "counts" ->
              IF e = 0 THEN [ok |-> TRUE, data |-> [f EXCEPT !.counts = [per |-> AllZero, total |-> 0]]]
              ELSE IF e = 6 THEN [ok |-> n.ok, data |-> [f EXCEPT !.counts.total = n.v]]
              ELSE [ok |-> n.ok, data |-> [f EXCEPT !.counts.per[e] = n.v]]
         [] dmg.part = "pages_done" ->
              IF e = 0 THEN [ok |-> TRUE, data |-> [f EXCEPT !.pages_done = AllZero]]
              ELSE [ok |-> n.ok, data |-> [f EXCEPT !.pages_done[e] = n.v]]
         [] dmg.part = "exhausted" ->
              IF e = 0 THEN [ok |-> TRUE, data |-> [f EXCEPT !.exhausted = AllFalse]]
              ELSE [ok |-> TRUE, data |-> [f EXCEPT !.exhausted[e] = bool_of(dmg.kind)]]
         [] OTHER ->
              IF e = 0 THEN [ok |-> TRUE, data |-> [f EXCEPT !.seen_hashes = [s \in Stars |-> <<>>]]]
              ELSE [ok |-> TRUE, data |-> [f EXCEPT !.seen_hashes[e] = <<>>]]

\* _load_or_init, lines 76-105, on a damaged document: an exception of
\* _ensure_structures is swallowed by `except Exception: pass` and `base` is
\* written over the file
load_damaged(f, dmg, default_total, default_per_star) ==
    LET r == ensure_structures(f, dmg)
    IN IF f.exists /\ f.readable /\ r.ok
       THEN load_or_init(r.data, default_total, default_per_star)
       ELSE Base(default_total, default_per_star)

\* ensure_targets: lines 115-140
ensure_targets(d, total_target, per_star_target) ==
    LET previous_total == d.targets.total IN
    IF d.targets # Expected(total_target, per_star_target)
    THEN LET d1 == [d EXCEPT !.targets = Expected(total_target, per_star_target)]
             d2 == IF d1.completed /\ d1.counts.total < total_target
                   THEN [d1 EXCEPT !.completed = FALSE] ELSE d1
         IN IF previous_total < total_target
            THEN [d2 EXCEPT !.exhausted = AllFalse, !.pages_done = AllZero]
            ELSE d2
    ELSE IF d.completed /\ d.counts.total < total_target
         THEN [d EXCEPT !.completed = FALSE]
         ELSE d

\* the loop of record_hashes_for_star, lines 150-157
RECURSIVE new_hashes_loop(_, _, _, _)
new_hashes_loop(hashes, i, known, new_hashes) ==
    IF i > Len(hashes) THEN new_hashes
    ELSE LET h == hashes[i] IN
         IF h = EmptyKey THEN new_hashes_loop(hashes, i + 1, known, new_hashes)
         ELSE IF h \notin known
              THEN new_hashes_loop(hashes, i + 1, known \cup {h}, Append(new_hashes, h))
              ELSE new_hashes_loop(hashes, i + 1, known, new_hashes)

\* faulty variant: every non-empty key of the call is taken as new
record_hashes_no_dedup(d, star, hashes) ==
    IF star \notin Stars \/ hashes = <<>> THEN [data |-> d, ret |-> 0]
    ELSE LET new_hashes == SelectSeq(hashes, LAMBDA h : h # EmptyKey) IN
         IF new_hashes = <<>> THEN [data |-> d, ret |-> 0]
         ELSE [data |-> [d EXCEPT !.seen_hashes[star] = @ \o new_hashes,
                                  !.counts.per[star] = @ + Len(new_hashes),
                                  !.counts.total = @ + Len(new_hashes)],
               ret |-> Len(new_hashes)]

\* faulty variant: a recorded batch counts as one key
record_hashes_count_one(d, star, hashes) ==
    IF star \notin Stars \/ hashes = <<>> THEN [data |-> d, ret |-> 0]
    ELSE LET new_hashes == new_hashes_loop(hashes, 1, Range(d.seen_hashes[star]), <<>>) IN
         IF new_hashes = <<>> THEN [data |-> d, ret |-> 0]
         ELSE [data |-> [d EXCEPT !.seen_hashes[star] = @ \o new_hashes,
                                  !.counts.per[star] = @ + 1,
                                  !.counts.total = @ + 1],
               ret |-> Len(new_hashes)]

\* faulty variant: the per-star count is updated, the total is not
record_hashes_no_total(d, star, hashes) ==
    IF star \notin Stars \/ hashes = <<>> THEN [data |-> d, ret |-> 0]
    ELSE LET new_hashes == new_hashes_loop(hashes, 1, Range(d.seen_hashes[star]), <<>>) IN
         IF new_hashes = <<>> THEN [data |-> d, ret |-> 0]
         ELSE [data |-> [d EXCEPT !.seen_hashes[star] = @ \o new_hashes,
                                  !.counts.per[star] = @ + Len(new_hashes)],
               ret |-> Len(new_hashes)]

\* record_hashes_for_star: the document after the call and the returned number
record_hashes_for_star(d, star, hashes) ==
    IF star \notin Stars \/ hashes = <<>> THEN [data |-> d, ret |-> 0]
    ELSE LET new_hashes == new_hashes_loop(hashes, 1, Range(d.seen_hashes[star]), <<>>) IN
         IF new_hashes = <<>> THEN [data |-> d, ret |-> 0]
         ELSE [data |-> [d EXCEPT !.seen_hashes[star] = @ \o new_hashes,
                                  !.counts.per[star] = @ + Len(new_hashes),
                                  !.counts.total = @ + Len(new_hashes)],
               ret |-> Len(new_hashes)]

\* faulty variant: the cursor skips a page
inc_page_done_skip(d, star) == [d EXCEPT !.pages_done[star] = @ + 2]

inc_page_done(d, star) == [d EXCEPT !.pages_done[star] = @ + 1]

mark_exhausted(d, star) == [d EXCEPT !.exhausted[star] = TRUE]

mark_completed(d) == [d EXCEPT !.completed = TRUE]

want_more_for_star(d, star) ==
    (~d.exhausted[star]) /\ d.counts.per[star] < d.targets.per[star]

total_reached(d) == d.counts.total >= d.targets.total

(***************************************************************************)
(* The upstream listing (api.py, get_reviews_page seen from the caller)    *)
(***************************************************************************)
\* a normalised page item: its dedup key (util_hash.md5_prefix64 of the url and
\* the item's reviewer, date and 64-character body prefix) and the reported
\* rating, 0 standing for a rating that is None
R(k, r) == [key |-> k, rating |-> r]

\* one star filter's listing; total_pages 0: the response carries no last page
Listing(pages, total_pages) == [pages |-> pages, total_pages |-> total_pages]

EmptyListing == Listing(<< <<>> >>, 1)

\* scarce low stars, abundant five stars
UpScarce ==
    [s \in Stars |->
        CASE s = 1 -> Listing(<< <<R(1, 1)>> >>, 1)
          [] s = 2 -> Listing(<< <<R(2, 2)>> >>, 1)
          [] s = 4 -> Listing(<< <<R(3, 4)>> >>, 1)
          [] s = 5 -> Listing(<< <<R(4, 5), R(5, 5)>>, <<R(6, 5), R(7, 5)>> >>, 2)
          [] OTHER -> EmptyListing]

\* fewer reviews than any plan total, all of them one-star on one page
UpFew ==
    [s \in Stars |->
        IF s = 1 THEN Listing(<< <<R(1, 1), R(2, 1), R(3, 1)>> >>, 1)
        ELSE EmptyListing]

\* unrated and mis-rated items, one key under two filters and on two pages
UpDup ==
    [s \in Stars |->
        CASE s = 4 -> Listing(<< <<R(1, 0), R(2, 5)>> >>, 1)
          [] s = 5 -> Listing(<< <<R(1, 0), R(3, 5)>>, <<R(3, 5), R(4, 5)>> >>, 2)
          [] OTHER -> EmptyListing]

\* a five-star listing that never reports its last page
UpNoTotal ==
    [s \in Stars |->
        IF s = 5 THEN Listing(<< <<R(1, 5), R(2, 5)>> >>, 0)
        ELSE EmptyListing]

Upstreams == {UpScarce, UpFew, UpDup, UpNoTotal}

\* a page of correctly rated items with consecutive keys
Items(first, last, r) == [i \in 1..(last - first + 1) |-> R(first + i - 1, r)]

\* one one-star review on a single last page, three reviews under each of the
\* filters 2-4, fifteen five-star reviews on pages of three
UpQuotaAligned ==
    [s \in Stars |->
        CASE s = 1 -> Listing(<< Items(1, 1, 1) >>, 1)
          [] s = 5 -> Listing(<< Items(11, 13, 5), Items(14, 16, 5), Items(17, 19, 5),
                                 Items(20, 22, 5), Items(23, 25, 5) >>, 5)
          [] OTHER -> Listing(<< Items(3 * s - 4, 3 * s - 2, s) >>, 1)]

\* one one-star review on a single last page, fifteen five-star reviews on
\* pages of five, nothing under the filters 2-4
UpQuotaPaged ==
    [s \in Stars |->
        CASE s = 1 -> Listing(<< Items(1, 1, 1) >>, 1)
          [] s = 5 -> Listing(<< Items(11, 15, 5), Items(16, 20, 5), Items(21, 25, 5) >>, 3)
          [] OTHER -> EmptyListing]

\* no one-star review, five five-star reviews on pages of two
UpQuotaSmall ==
    [s \in Stars |->
        IF s = 5 THEN Listing(<< Items(11, 12, 5), Items(13, 14, 5), Items(15, 15, 5) >>, 3)
        ELSE EmptyListing]

QuotaScenarios == {UpQuotaAligned, UpQuotaPaged, UpQuotaSmall}

\* two three-star and two four-star reviews, seven five-star ones on pages of two
UpLate ==
    [s \in Stars |->
        CASE s = 3 -> Listing(<< <<R(3, 3), R(4, 3)>> >>, 1)
          [] s = 4 -> Listing(<< <<R(1, 4), R(2, 4)>> >>, 1)
          [] s = 5 -> Listing(<< Items(11, 12, 5), Items(13, 14, 5), Items(15, 16, 5),
                                 Items(17, 17, 5) >>, 4)
          [] OTHER -> EmptyListing]

\* a raw entry of a page that is no dictionary: reading its fields raises
NotAnItem == [key |-> EmptyKey, rating |-> 0 - 1]

\* stars 4 and 5 list such entries among their reviews
UpBadItem ==
    [s \in Stars |->
        CASE s = 4 -> Listing(<< <<NotAnItem, R(21, 4)>> >>, 1)
          [] s = 5 -> Listing(<< <<R(22, 5), NotAnItem>>, <<R(23, 5)>> >>, 2)
          [] OTHER -> EmptyListing]

\* get_reviews_page as the orchestrator sees a successful call: the items of the
\* page (none past the listing's end; an entry that cannot be read is skipped,
\* lines 206-249) and meta; current_page falls back to the requested page,
\* total_pages is None (0) when upstream reports none
get_reviews_page(u, page, s) ==
    [reviews |-> IF page <= Len(u[s].pages)
                 THEN SelectSeq(u[s].pages[page], LAMBDA e : e # NotAnItem)
                 ELSE <<>>,
     meta |-> [current_page |-> page, total_pages |-> u[s].total_pages]]

(***************************************************************************)
(* db.py: save_reviews                                                     *)
(***************************************************************************)
SaveOutcomes == {"ok", "zero", "raise"}

\* "ok": INSERT IGNORE stores the rows whose key is new; "zero": executemany
\* fails, the transaction is rolled back and 0 is returned; "raise": _conn
\* fails before the try block and the exception reaches the caller
save_reviews(stored, rows, outcome) ==
    [db |-> IF outcome = "ok" THEN stored \cup Range(rows) ELSE stored,
     raised |-> outcome = "raise"]

(***************************************************************************)
(* runner.py: Runner._crawl_one and Runner._process_group                  *)
(***************************************************************************)
\* lines 71-74: the orchestrator's own per-star plan
target_per_star(total_cap) ==
    LET per_star_cap == split_per_star(total_cap)
        remainder == Max(0, total_cap - per_star_cap * 5)
    IN [s \in Stars |-> IF s = 5 THEN per_star_cap + remainder ELSE per_star_cap]

\* lines 122-126 and 211-215
effective_rating(rating, target_star) ==
    IF rating \in Stars THEN rating ELSE target_star

\* lines 117-136; acc carries collected, taken_per_star, seen_hashes and kept
RECURSIVE push_loop(_, _, _, _, _)
push_loop(batch, i, target_star, total_cap, acc) ==
    IF i > Len(batch) \/ Len(acc.collected) >= total_cap THEN acc
    ELSE LET rating == effective_rating(batch[i].rating, target_star)
             rid == batch[i].key
         IN IF rid \in acc.seen THEN push_loop(batch, i + 1, target_star, total_cap, acc)
            ELSE IF rating = target_star
                    /\ acc.taken[rating] < target_per_star(total_cap)[rating]
                 THEN push_loop(batch, i + 1, target_star, total_cap,
                        [collected |-> Append(acc.collected, rid),
                         taken |-> [acc.taken EXCEPT ![rating] = @ + 1],
                         seen |-> acc.seen \cup {rid},
                         kept |-> Append(acc.kept, rid)])
                 ELSE push_loop(batch, i + 1, target_star, total_cap, acc)

\* lines 207-223: the Phase 2 accept loop
RECURSIVE fill_loop(_, _, _, _, _)
fill_loop(batch, i, s, total_cap, acc) ==
    IF i > Len(batch) \/ Len(acc.collected) >= total_cap THEN acc
    ELSE LET rating == effective_rating(batch[i].rating, s)
             rid == batch[i].key
         IN IF rid \in acc.seen THEN fill_loop(batch, i + 1, s, total_cap, acc)
            ELSE IF rating = s
                 THEN fill_loop(batch, i + 1, s, total_cap,
                        [collected |-> Append(acc.collected, rid),
                         taken |-> acc.taken,
                         seen |-> acc.seen \cup {rid},
                         kept |-> Append(acc.kept, rid)])
                 ELSE fill_loop(batch, i + 1, s, total_cap, acc)

fill_up(batch, s, total_cap, acc) == fill_loop(batch, 1, s, total_cap, acc)

\* faulty variant: Phase 1 accepts without looking at the star's quota
push_without_quota(batch, target_star, total_cap, acc) ==
    fill_loop(batch, 1, target_star, total_cap, acc)

push_with_quota(batch, target_star, total_cap, acc) ==
    push_loop(batch, 1, target_star, total_cap, acc)

\* faulty variant: the pass starts without the keys of the checkpoint
sync_seen_none(d) == {}

\* lines 105-113: the keys of every bucket of the checkpoint
sync_seen(d) == UNION {Range(d.seen_hashes[s]) : s \in Stars}

NoMeta == [current_page |-> 0, total_pages |-> 0]

\* lines 178-180 and 240-242
last_page(m) ==
    m.total_pages # 0 /\ m.current_page # 0 /\ m.current_page >= m.total_pages

\* The steps of one process run, each a function of the packed state o:
\* pc, s, ck, file, collected, taken, seen, reviews, meta, kept, db.

\* the pass returns to the sweep, the target is skipped, or the process ends
stop(o) ==
    [o EXCEPT !.pc = "stopped", !.s = 0, !.ck = NoFile, !.collected = <<>>,
              !.taken = AllZero, !.seen = {}, !.reviews = <<>>, !.meta = NoMeta,
              !.kept = <<>>]

\* faulty variant: every pass that reaches its end marks the target completed
finish_always(o) == stop([o EXCEPT !.file = mark_completed(o.ck)])

\* lines 245-253
finish(o) ==
    LET all_exhausted == \A s \in Stars : o.ck.exhausted[s]
        d == IF total_reached(o.ck) \/ all_exhausted THEN mark_completed(o.ck) ELSE o.ck
    IN stop([o EXCEPT !.file = d])

\* lines 186-190: the head of the Phase 2 for loop at star s
phase2_enter(o, s) ==
    IF s < 1 \/ total_reached(o.ck) THEN [o EXCEPT !.pc = "finish", !.s = 0]
    ELSE [o EXCEPT !.pc = "p2_while", !.s = s]

\* line 185
phase2_start(o) ==
    IF ~total_reached(o.ck) THEN phase2_enter(o, 5)
    ELSE [o EXCEPT !.pc = "finish", !.s = 0]

\* lines 139-141: the head of the Phase 1 for loop at star s
RECURSIVE phase1_enter(_, _)
phase1_enter(o, s) ==
    IF s > 5 THEN phase2_start(o)
    ELSE IF o.ck.exhausted[s] THEN phase1_enter(o, s + 1)
    ELSE [o EXCEPT !.pc = "p1_while", !.s = s]

\* lines 263-270 (286-293, 302-309): the sweep's visit of the target
sweep_visit(o, total_cap) ==
    LET d == ensure_targets(load_or_init(o.file, DEFAULT_TOTAL, DEFAULT_PER_STAR),
                            total_cap, split_per_star(total_cap))
        n == [o EXCEPT !.ck = d, !.file = d]
    IN IF d.completed /\ d.counts.total >= d.targets.total
       THEN stop(n)
       ELSE [n EXCEPT !.pc = "crawl"]

\* lines 47-115: product info, the pass's own LinkProgress, the locals
crawl_start(o, total_cap) ==
    LET d == ensure_targets(load_or_init(o.file, total_cap, split_per_star(total_cap)),
                            total_cap, split_per_star(total_cap))
    IN phase1_enter([o EXCEPT !.ck = d, !.file = d, !.collected = <<>>,
                              !.taken = d.counts.per, !.seen = sync_seen(d)], 1)

\* lines 41-45: a URL without a product id returns [] at once
crawl_one(o, url, total_cap) ==
    IF extract_product_id(url) = NoProductId THEN stop(o)
    ELSE crawl_start(o, total_cap)

\* faulty variant: a failed fetch ends the whole pass
phase1_while_abort(o, u, fetch_ok) ==
    IF want_more_for_star(o.ck, o.s) /\ ~total_reached(o.ck)
    THEN IF fetch_ok
         THEN LET r == get_reviews_page(u, o.ck.pages_done[o.s] + 1, o.s)
              IN [o EXCEPT !.pc = "p1_push", !.reviews = r.reviews, !.meta = r.meta]
         ELSE stop(o)
    ELSE phase1_enter(o, o.s + 1)

\* lines 142-147: the while condition and the fetch of page cursor + 1
phase1_while(o, u, fetch_ok) ==
    IF want_more_for_star(o.ck, o.s) /\ ~total_reached(o.ck)
    THEN IF fetch_ok
         THEN LET r == get_reviews_page(u, o.ck.pages_done[o.s] + 1, o.s)
              IN [o EXCEPT !.pc = "p1_push", !.reviews = r.reviews, !.meta = r.meta]
         ELSE phase1_enter(o, o.s + 1)
    ELSE phase1_enter(o, o.s + 1)

\* faulty variant: Phase 2 fetches without looking at the total
phase2_while_eager(o, u, fetch_ok) ==
    IF fetch_ok
    THEN LET r == get_reviews_page(u, o.ck.pages_done[o.s] + 1, o.s)
         IN [o EXCEPT !.pc = "p2_push", !.reviews = r.reviews, !.meta = r.meta]
    ELSE phase2_enter(o, o.s - 1)

\* lines 190-195
phase2_while(o, u, fetch_ok) ==
    IF ~total_reached(o.ck)
    THEN IF fetch_ok
         THEN LET r == get_reviews_page(u, o.ck.pages_done[o.s] + 1, o.s)
              IN [o EXCEPT !.pc = "p2_push", !.reviews = r.reviews, !.meta = r.meta]
         ELSE phase2_enter(o, o.s - 1)
    ELSE phase2_enter(o, o.s - 1)

\* faulty variant: an exception of the sink call is not caught and ends the run
flush_raise(o, acc, outcome, rec_pc, inc_pc) ==
    LET sv == save_reviews(o.db, acc.kept, outcome)
        n == [o EXCEPT !.collected = acc.collected, !.taken = acc.taken,
                       !.seen = acc.seen, !.kept = acc.kept]
    IN IF acc.kept # <<>>
       THEN IF sv.raised THEN stop(n) ELSE [n EXCEPT !.db = sv.db, !.pc = rec_pc]
       ELSE [n EXCEPT !.pc = inc_pc]

\* lines 161-169 and 225-233 up to the sink call: a raised save skips the record
flush(o, acc, outcome, rec_pc, inc_pc) ==
    LET sv == save_reviews(o.db, acc.kept, outcome)
        n == [o EXCEPT !.collected = acc.collected, !.taken = acc.taken,
                       !.seen = acc.seen, !.kept = acc.kept]
    IN IF acc.kept # <<>>
       THEN [n EXCEPT !.db = sv.db, !.pc = IF sv.raised THEN inc_pc ELSE rec_pc]
       ELSE [n EXCEPT !.pc = inc_pc]

Locals(o) == [collected |-> o.collected, taken |-> o.taken, seen |-> o.seen, kept |-> <<>>]

\* lines 148-166
phase1_push(o, total_cap, outcome) ==
    flush(o, push_with_quota(o.reviews, o.s, total_cap, Locals(o)), outcome,
          "p1_record", "p1_inc")

\* lines 196-230
phase2_push(o, total_cap, outcome) ==
    flush(o, fill_up(o.reviews, o.s, total_cap, Locals(o)), outcome,
          "p2_record", "p2_inc")

\* lines 167 and 231
record_kept(o, inc_pc) ==
    LET d == record_hashes_for_star(o.ck, o.s, o.kept).data
    IN [o EXCEPT !.ck = d, !.file = d, !.kept = <<>>, !.pc = inc_pc]

\* lines 171-175 and 235-238
inc_page(o, last_pc) ==
    LET d == inc_page_done(o.ck, o.s)
    IN [o EXCEPT !.ck = d, !.file = d, !.kept = <<>>, !.reviews = <<>>, !.pc = last_pc]

\* lines 177-182
phase1_last(o) ==
    IF last_page(o.meta)
    THEN LET d == mark_exhausted(o.ck, o.s)
         IN phase1_enter([o EXCEPT !.ck = d, !.file = d, !.meta = NoMeta], o.s + 1)
    ELSE [o EXCEPT !.pc = "p1_while", !.meta = NoMeta]

\* lines 240-243
phase2_last(o) ==
    IF last_page(o.meta)
    THEN phase2_enter([o EXCEPT !.meta = NoMeta], o.s - 1)
    ELSE [o EXCEPT !.pc = "p2_while", !.meta = NoMeta]

(***************************************************************************)
(* Bounds of the model                                                     *)
(***************************************************************************)
MaxRuns == 2

\* interruptions, failed fetches and failed sink calls of one behaviour, together
MaxFaults == 1

MaxEdits == 1

\* no page past this cursor is requested (listings without a last page never end)
MaxPage == 4

\* the totals an edit of config.py may set
ConfigTotals == {RD_TOTAL_REVIEWS, RD_TOTAL_REVIEWS + 2, DEFAULT_TOTAL, OTHER_TOTAL_REVIEWS}

UpKeys(u) ==
    UNION {UNION {{u[s].pages[p][i].key : i \in DOMAIN u[s].pages[p]} :
                  p \in DOMAIN u[s].pages} : s \in Stars} \ {EmptyKey}

AllKeys == UNION {UpKeys(u) : u \in Upstreams \cup QuotaScenarios \cup {UpBadItem, UpLate}}

(***************************************************************************)
(* The process as a state machine                                          *)
(***************************************************************************)
vars == <<file, ck, group_total, up, pc, loop_s, collected, taken_per_star,
          seen_hashes, reviews, meta, kept, db, hist, lastOp, lastRet,
          get_pc, attempt_number, responses, ua_idx, proxy_idx, pools, clients, sent,
          catalog, sweep_i, disk, objs, call_args, call_ret>>

getvars == <<get_pc, attempt_number, responses, ua_idx, proxy_idx, pools, clients, sent>>

sweepvars == <<catalog, sweep_i, disk, objs>>

purevars == <<call_args, call_ret>>

\* no file in progress/ besides the one at hand
NoDisk == [p \in Paths |-> NoFile]

\* no LinkProgress object held by a direct caller
NoObjs == [u \in Urls |-> NoFile]

\* a catalog of one target with a product id, the sweep at it
OneTarget ==
    /\ catalog = <<UrlA>>
    /\ sweep_i = 1
    /\ disk = NoDisk
    /\ objs = NoObjs

\* no function applied on its own
NoCall == call_args = <<>> /\ call_ret = <<>>

\* config.py: len(USER_AGENTS), len(PROXY_POOL)
UserAgents == 3

ProxyPool == 0

\* lines 111-127: the rotators' values under config.py as shipped
ConfigPools ==
    [ua |-> [i \in 1..UserAgents |-> i], proxy |-> [i \in 1..ProxyPool |-> i]]

\* lines 111-129 but for the pools: rotators at 0, no connection context, no call made
ApiStart ==
    /\ get_pc = "idle"
    /\ attempt_number = 0
    /\ responses = <<>>
    /\ ua_idx = 0
    /\ proxy_idx = 0
    /\ clients = <<>>
    /\ sent = <<>>

\* a TikiApi just constructed, no call made
ApiInit == ApiStart /\ pools = ConfigPools

Cur ==
    [pc |-> pc, s |-> loop_s, ck |-> ck, file |-> file, collected |-> collected,
     taken |-> taken_per_star, seen |-> seen_hashes, reviews |-> reviews,
     meta |-> meta, kept |-> kept, db |-> db]

Apply(n) ==
    /\ pc' = n.pc
    /\ loop_s' = n.s
    /\ ck' = n.ck
    /\ file' = n.file
    /\ collected' = n.collected
    /\ taken_per_star' = n.taken
    /\ seen_hashes' = n.seen
    /\ reviews' = n.reviews
    /\ meta' = n.meta
    /\ kept' = n.kept
    /\ db' = n.db

NoOp == [op |-> "none", star |-> 0, keys |-> <<>>, repeat |-> FALSE, prevRet |-> 0]

NoHist ==
    [runs |-> 0, crashes |-> 0, fetch_fails |-> 0, sink_fails |-> 0, edits |-> 0,
     finished |-> 0, counted |-> [k \in AllKeys |-> 0]]

Faults == hist.crashes + hist.fetch_fails + hist.sink_fails

Init ==
    /\ file = NoFile
    /\ ck = NoFile
    /\ group_total \in {RD_TOTAL_REVIEWS, OTHER_TOTAL_REVIEWS}
    /\ up \in Upstreams
    /\ pc = "stopped"
    /\ loop_s = 0
    /\ collected = <<>>
    /\ taken_per_star = AllZero
    /\ seen_hashes = {}
    /\ reviews = <<>>
    /\ meta = NoMeta
    /\ kept = <<>>
    /\ db = {}
    /\ hist = NoHist
    /\ lastOp = NoOp
    /\ lastRet = 0
    /\ ApiInit
    /\ NoCall
    /\ OneTarget

Env == UNCHANGED <<group_total, up, lastOp, lastRet, getvars, sweepvars, purevars>>

\* main.py / Runner.run: the process is started (again)
StartRun ==
    /\ pc = "stopped"
    /\ hist.runs < MaxRuns
    /\ pc' = "sweep"
    /\ hist' = [hist EXCEPT !.runs = @ + 1]
    /\ UNCHANGED <<file, ck, group_total, up, loop_s, collected, taken_per_star,
                   seen_hashes, reviews, meta, kept, db, lastOp, lastRet, getvars,
                   sweepvars, purevars>>

\* config.py is edited between two runs
EditConfig ==
    /\ pc = "stopped"
    /\ hist.edits < MaxEdits
    /\ \E t \in ConfigTotals \ {group_total} : group_total' = t
    /\ hist' = [hist EXCEPT !.edits = @ + 1]
    /\ UNCHANGED <<file, ck, up, pc, loop_s, collected, taken_per_star,
                   seen_hashes, reviews, meta, kept, db, lastOp, lastRet, getvars,
                   sweepvars, purevars>>

\* the process is interrupted: memory is lost, the file and the sink stay
Crash ==
    /\ pc # "stopped"
    /\ Faults < MaxFaults
    /\ Apply(stop(Cur))
    /\ hist' = [hist EXCEPT !.crashes = @ + 1]
    /\ Env

SweepVisit ==
    /\ pc = "sweep"
    /\ LET n == sweep_visit(Cur, group_total)
       IN /\ Apply(n)
          /\ hist' = IF n.pc = "stopped" THEN [hist EXCEPT !.finished = @ + 1] ELSE hist
    /\ Env

CrawlStart ==
    /\ pc = "crawl"
    /\ LET n == crawl_one(Cur, catalog[sweep_i], group_total)
       IN /\ Apply(n)
          /\ hist' = IF n.pc = "stopped" THEN [hist EXCEPT !.finished = @ + 1] ELSE hist
    /\ Env

Phase1Fetch ==
    /\ pc = "p1_while"
    /\ want_more_for_star(ck, loop_s) /\ ~total_reached(ck)
    /\ ck.pages_done[loop_s] < MaxPage
    /\ Apply(phase1_while(Cur, up, TRUE))
    /\ UNCHANGED hist
    /\ Env

Phase1FetchFail ==
    /\ pc = "p1_while"
    /\ want_more_for_star(ck, loop_s) /\ ~total_reached(ck)
    /\ Faults < MaxFaults
    /\ Apply(phase1_while(Cur, up, FALSE))
    /\ hist' = [hist EXCEPT !.fetch_fails = @ + 1]
    /\ Env

Phase1Quit ==
    /\ pc = "p1_while"
    /\ ~(want_more_for_star(ck, loop_s) /\ ~total_reached(ck))
    /\ Apply(phase1_while(Cur, up, TRUE))
    /\ UNCHANGED hist
    /\ Env

Phase1Push ==
    /\ pc = "p1_push"
    /\ Apply(phase1_push(Cur, group_total, "ok"))
    /\ UNCHANGED hist
    /\ Env

Phase1PushSinkFail ==
    /\ pc = "p1_push"
    /\ Faults < MaxFaults
    /\ phase1_push(Cur, group_total, "ok").kept # <<>>
    /\ \E outcome \in SaveOutcomes \ {"ok"} : Apply(phase1_push(Cur, group_total, outcome))
    /\ hist' = [hist EXCEPT !.sink_fails = @ + 1]
    /\ Env

\* history: how often each key has been added to the counts by a record step
Counted(before, after, s) ==
    LET added == (Len(before.seen_hashes[s]) + 1)..Len(after.seen_hashes[s])
    IN [hist EXCEPT !.counted = [k \in AllKeys |->
            @[k] + Cardinality({i \in added : after.seen_hashes[s][i] = k})]]

Phase1Record ==
    /\ pc = "p1_record"
    /\ LET n == record_kept(Cur, "p1_inc")
       IN Apply(n) /\ hist' = Counted(ck, n.ck, loop_s)
    /\ Env

Phase1Inc ==
    /\ pc = "p1_inc"
    /\ Apply(inc_page(Cur, "p1_last"))
    /\ UNCHANGED hist
    /\ Env

Phase1Last ==
    /\ pc = "p1_last"
    /\ Apply(phase1_last(Cur))
    /\ UNCHANGED hist
    /\ Env

Phase2Fetch ==
    /\ pc = "p2_while"
    /\ ~total_reached(ck)
    /\ ck.pages_done[loop_s] < MaxPage
    /\ Apply(phase2_while(Cur, up, TRUE))
    /\ UNCHANGED hist
    /\ Env

Phase2FetchFail ==
    /\ pc = "p2_while"
    /\ ~total_reached(ck)
    /\ Faults < MaxFaults
    /\ Apply(phase2_while(Cur, up, FALSE))
    /\ hist' = [hist EXCEPT !.fetch_fails = @ + 1]
    /\ Env

Phase2Quit ==
    /\ pc = "p2_while"
    /\ total_reached(ck)
    /\ Apply(phase2_while(Cur, up, TRUE))
    /\ UNCHANGED hist
    /\ Env

Phase2Push ==
    /\ pc = "p2_push"
    /\ Apply(phase2_push(Cur, group_total, "ok"))
    /\ UNCHANGED hist
    /\ Env

Phase2PushSinkFail ==
    /\ pc = "p2_push"
    /\ Faults < MaxFaults
    /\ phase2_push(Cur, group_total, "ok").kept # <<>>
    /\ \E outcome \in SaveOutcomes \ {"ok"} : Apply(phase2_push(Cur, group_total, outcome))
    /\ hist' = [hist EXCEPT !.sink_fails = @ + 1]
    /\ Env

Phase2Record ==
    /\ pc = "p2_record"
    /\ LET n == record_kept(Cur, "p2_inc")
       IN Apply(n) /\ hist' = Counted(ck, n.ck, loop_s)
    /\ Env

Phase2Inc ==
    /\ pc = "p2_inc"
    /\ Apply(inc_page(Cur, "p2_last"))
    /\ UNCHANGED hist
    /\ Env

Phase2Last ==
    /\ pc = "p2_last"
    /\ Apply(phase2_last(Cur))
    /\ UNCHANGED hist
    /\ Env

Finish ==
    /\ pc = "finish"
    /\ Apply(finish(Cur))
    /\ hist' = [hist EXCEPT !.finished = @ + 1]
    /\ Env

Next ==
    \/ StartRun \/ EditConfig \/ Crash \/ SweepVisit \/ CrawlStart
    \/ Phase1Fetch \/ Phase1FetchFail \/ Phase1Quit \/ Phase1Push
    \/ Phase1PushSinkFail \/ Phase1Record \/ Phase1Inc \/ Phase1Last
    \/ Phase2Fetch \/ Phase2FetchFail \/ Phase2Quit \/ Phase2Push
    \/ Phase2PushSinkFail \/ Phase2Record \/ Phase2Inc \/ Phase2Last
    \/ Finish

Spec == Init /\ [][Next]_vars

(***************************************************************************)
(* One run without any fault, as a function of the state it starts in      *)
(***************************************************************************)
ok_step(o, u, total_cap) ==
    CASE o.pc = "sweep" -> sweep_visit(o, total_cap)
      [] o.pc = "crawl" -> crawl_start(o, total_cap)
      [] o.pc = "p1_while" -> phase1_while(o, u, TRUE)
      [] o.pc = "p1_push" -> phase1_push(o, total_cap, "ok")
      [] o.pc = "p1_record" -> record_kept(o, "p1_inc")
      [] o.pc = "p1_inc" -> inc_page(o, "p1_last")
      [] o.pc = "p1_last" -> phase1_last(o)
      [] o.pc = "p2_while" -> phase2_while(o, u, TRUE)
      [] o.pc = "p2_push" -> phase2_push(o, total_cap, "ok")
      [] o.pc = "p2_record" -> record_kept(o, "p2_inc")
      [] o.pc = "p2_inc" -> inc_page(o, "p2_last")
      [] o.pc = "p2_last" -> phase2_last(o)
      [] o.pc = "finish" -> finish(o)
      [] OTHER -> o

\* the run would ask for a page past MaxPage
PastMaxPage(o) ==
    /\ o.pc \in {"p1_while", "p2_while"}
    /\ o.ck.pages_done[o.s] >= MaxPage
    /\ ~total_reached(o.ck)
    /\ o.pc = "p1_while" => want_more_for_star(o.ck, o.s)

RECURSIVE RunPass(_, _, _)
RunPass(o, u, total_cap) ==
    IF o.pc = "stopped" \/ PastMaxPage(o) THEN o
    ELSE RunPass(ok_step(o, u, total_cap), u, total_cap)

\* the first run of a target never visited, left uninterrupted
Uninterrupted(u, total_cap) ==
    RunPass([pc |-> "sweep", s |-> 0, ck |-> NoFile, file |-> NoFile,
             collected |-> <<>>, taken |-> AllZero, seen |-> {}, reviews |-> <<>>,
             meta |-> NoMeta, kept |-> <<>>, db |-> {}], u, total_cap)

(***************************************************************************)
(* The checkpoint store driven directly: any caller, any order of calls    *)
(***************************************************************************)
MaxKeyList == 1

MaxStorePage == 1

\* the keys the direct calls pass, besides the empty one
StoreKeys == {1, 2}

\* the stars the direct calls name
StoreStars == {1, 5}

KeyLists(n) == UNION {[1..m -> {EmptyKey} \cup StoreKeys] : m \in 0..n}

StoreKeyLists == KeyLists(MaxKeyList)

StorePlans == {RD_TOTAL_REVIEWS, DEFAULT_TOTAL}

\* repeat: the call before was the same call; prevRet: what that one returned
Called(op, s, keys) ==
    LET repeat == lastOp.op = op /\ lastOp.star = s /\ lastOp.keys = keys
    IN [op |-> op, star |-> s, keys |-> keys, repeat |-> repeat,
        prevRet |-> IF repeat THEN lastRet ELSE 0]

OrchIdle ==
    UNCHANGED <<group_total, up, pc, loop_s, collected, taken_per_star, seen_hashes,
                reviews, meta, kept, db, hist, getvars, sweepvars, purevars>>

InitStore ==
    /\ file = NoFile
    /\ ck = NoFile
    /\ group_total = RD_TOTAL_REVIEWS
    /\ up = UpFew
    /\ pc = "stopped"
    /\ loop_s = 0
    /\ collected = <<>>
    /\ taken_per_star = AllZero
    /\ seen_hashes = {}
    /\ reviews = <<>>
    /\ meta = NoMeta
    /\ kept = <<>>
    /\ db = {}
    /\ hist = NoHist
    /\ lastOp = NoOp
    /\ lastRet = 0
    /\ ApiInit
    /\ NoCall
    /\ OneTarget

\* LinkProgress(url, total_target, per_star_target)
StoreLoad ==
    /\ \E t \in StorePlans :
          /\ ck' = load_or_init(file, t, split_per_star(t))
          /\ lastOp' = Called("load", 0, <<>>)
    /\ file' = ck'
    /\ lastRet' = 0
    /\ OrchIdle

StoreEnsureTargets ==
    /\ ck.exists
    /\ \E t \in StorePlans :
          /\ ck' = ensure_targets(ck, t, split_per_star(t))
          /\ lastOp' = Called("ensure_targets", 0, <<>>)
    /\ file' = ck'
    /\ lastRet' = 0
    /\ OrchIdle

StoreRecord ==
    /\ ck.exists
    /\ \E s \in StoreStars, keys \in StoreKeyLists :
          LET r == record_hashes_for_star(ck, s, keys)
          IN /\ ck' = r.data
             /\ lastRet' = r.ret
             /\ lastOp' = Called("record", s, keys)
    /\ file' = ck'
    /\ OrchIdle

StoreIncPage ==
    /\ ck.exists
    /\ \E s \in {1} :
          /\ ck.pages_done[s] < MaxStorePage
          /\ ck' = inc_page_done(ck, s)
          /\ lastOp' = Called("inc_page_done", s, <<>>)
    /\ file' = ck'
    /\ lastRet' = 0
    /\ OrchIdle

StoreMarkExhausted ==
    /\ ck.exists
    /\ \E s \in {1} :
          /\ ck' = mark_exhausted(ck, s)
          /\ lastOp' = Called("mark_exhausted", s, <<>>)
    /\ file' = ck'
    /\ lastRet' = 0
    /\ OrchIdle

StoreMarkCompleted ==
    /\ ck.exists
    /\ ck' = mark_completed(ck)
    /\ lastOp' = Called("mark_completed", 0, <<>>)
    /\ file' = ck'
    /\ lastRet' = 0
    /\ OrchIdle

NextStore ==
    \/ StoreLoad \/ StoreEnsureTargets \/ StoreRecord \/ StoreIncPage
    \/ StoreMarkExhausted \/ StoreMarkCompleted

SpecStore == InitStore /\ [][NextStore]_vars

(***************************************************************************)
(* record_hashes_for_star alone, on longer key lists and on a star outside *)
(* 1..5                                                                    *)
(***************************************************************************)
MaxRecordList == 2

RecordLoad ==
    /\ ~ck.exists
    /\ ck' = load_or_init(file, RD_TOTAL_REVIEWS, split_per_star(RD_TOTAL_REVIEWS))
    /\ file' = ck'
    /\ lastOp' = Called("load", 0, <<>>)
    /\ lastRet' = 0
    /\ OrchIdle

RecordCall ==
    /\ ck.exists
    /\ \E s \in StoreStars \cup {6}, keys \in KeyLists(MaxRecordList) :
          LET r == record_hashes_for_star(ck, s, keys)
          IN /\ ck' = r.data
             /\ lastRet' = r.ret
             /\ lastOp' = Called("record", s, keys)
    /\ file' = ck'
    /\ OrchIdle

NextRecord == RecordLoad \/ RecordCall

SpecRecord == InitStore /\ [][NextRecord]_vars

(***************************************************************************)
(* api.py: TikiApi._get under its tenacity retry decorator                 *)
(***************************************************************************)
\* config.py: RETRY_MAX
RETRY_MAX == 5

\* no request attempt is made past this many of one client
MaxSent == 7

\* proxy = None: the request goes out directly
Direct == 0

\* faulty variant: the rotator steps over a value
rotator_skip(idx, n) == IF n = 0 THEN idx ELSE (idx + 2) % n

\* what one request can come to: a status code, or no response at all
Outcomes == {"200", "404", "429", "500", "transport"}

\* _Rotator.next on a pool of n values: the index after the call
rotator_next(idx, n) == IF n = 0 THEN idx ELSE (idx + 1) % n

\* the exception one attempt of _get ends with: client.get raises on a
\* transport failure, line 170 raises ApiError, raise_for_status raises
\* httpx.HTTPStatusError on any other unsuccessful status
raised_by(outcome) ==
    CASE outcome = "transport" -> "TransportError"
      [] outcome = "429" -> "ApiError"
      [] outcome = "200" -> "none"
      [] OTHER -> "HTTPStatusError"

\* retry_if_exception_type((httpx.HTTPError, ApiError)): httpx.TransportError and
\* httpx.HTTPStatusError are both subclasses of httpx.HTTPError
retry_if_exception_type(exc) ==
    exc = "ApiError" \/ exc \in {"TransportError", "HTTPStatusError"}

\* faulty variant: the stop test lets one attempt too many through
stop_after_attempt_late(n) == n > RETRY_MAX

stop_after_attempt(n) == n >= RETRY_MAX

OrchStoreIdle ==
    UNCHANGED <<file, ck, group_total, up, pc, loop_s, collected, taken_per_star,
                seen_hashes, reviews, meta, kept, db, hist, lastOp, lastRet,
                sweepvars, purevars>>

\* a caller (get_product_info, get_reviews_page) calls _get
GetCall ==
    /\ get_pc \in {"idle", "returned", "raised"}
    /\ get_pc' = "attempt"
    /\ attempt_number' = 1
    /\ responses' = <<>>
    /\ UNCHANGED <<ua_idx, proxy_idx, pools, clients, sent>>
    /\ OrchStoreIdle

\* _Rotator.next on a pool: the value returned (None for an empty pool)
rotator_value(values, idx) == IF values = <<>> THEN Direct ELSE values[idx + 1]

\* lines 131-143: the context of the key is created unless one exists
client_for_proxy(cl, key) ==
    IF \E i \in DOMAIN cl : cl[i] = key THEN cl ELSE Append(cl, key)

\* lines 164-168 of one attempt: both rotators are advanced, the request is sent
Request(outcome) ==
    /\ get_pc = "attempt"
    /\ Len(sent) < MaxSent
    /\ proxy_idx' = rotator_next(proxy_idx, Len(pools.proxy))
    /\ clients' = client_for_proxy(clients, rotator_value(pools.proxy, proxy_idx))
    /\ ua_idx' = rotator_next(ua_idx, Len(pools.ua))
    /\ sent' = Append(sent, [ua |-> rotator_value(pools.ua, ua_idx),
                             proxy |-> rotator_value(pools.proxy, proxy_idx)])
    /\ responses' = Append(responses, outcome)
    /\ UNCHANGED pools

\* the attempt gets a successful response, which _get returns
GetReturn ==
    /\ \E outcome \in Outcomes :
          /\ raised_by(outcome) = "none"
          /\ Request(outcome)
    /\ get_pc' = "returned"
    /\ UNCHANGED attempt_number
    /\ OrchStoreIdle

\* the attempt raises, and tenacity runs _get again
GetRetry ==
    /\ \E outcome \in Outcomes :
          /\ raised_by(outcome) # "none"
          /\ retry_if_exception_type(raised_by(outcome))
          /\ Request(outcome)
    /\ ~stop_after_attempt(attempt_number)
    /\ attempt_number' = attempt_number + 1
    /\ UNCHANGED get_pc
    /\ OrchStoreIdle

\* the attempt raises, and tenacity lets the exception out (reraise=True)
GetRaise ==
    /\ \E outcome \in Outcomes :
          /\ raised_by(outcome) # "none"
          /\ ~retry_if_exception_type(raised_by(outcome))
                \/ stop_after_attempt(attempt_number)
          /\ Request(outcome)
    /\ get_pc' = "raised"
    /\ UNCHANGED attempt_number
    /\ OrchStoreIdle

NextGet == GetCall \/ GetReturn \/ GetRetry \/ GetRaise

SpecGet == InitStore /\ [][NextGet]_vars

\* the pools a configuration may give the rotators: one or three identities;
\* no origin, one, two, or the same one listed twice
PoolChoices ==
    [ua : {<<1>>, <<1, 2, 3>>}, proxy : {<<>>, <<1>>, <<1, 2>>, <<1, 1>>}]

InitRotate ==
    /\ file = NoFile
    /\ ck = NoFile
    /\ group_total = RD_TOTAL_REVIEWS
    /\ up = UpFew
    /\ pc = "stopped"
    /\ loop_s = 0
    /\ collected = <<>>
    /\ taken_per_star = AllZero
    /\ seen_hashes = {}
    /\ reviews = <<>>
    /\ meta = NoMeta
    /\ kept = <<>>
    /\ db = {}
    /\ hist = NoHist
    /\ lastOp = NoOp
    /\ lastRet = 0
    /\ ApiStart
    /\ pools \in PoolChoices
    /\ NoCall
    /\ OneTarget

SpecRotate == InitRotate /\ [][NextGet]_vars

(***************************************************************************)
(* Properties                                                              *)
(***************************************************************************)

\* what one record_hashes_for_star(s, keys) step on a star of 1..5 does, with
\* fresh the distinct non-empty keys of the call not yet in s's seen-set
RecordStep ==
    (lastOp'.op = "record" /\ lastOp'.star \in Stars) =>
        LET s == lastOp'.star
            fresh == (Range(lastOp'.keys) \ {EmptyKey}) \ Range(ck.seen_hashes[s])
        IN /\ lastRet' = Cardinality(fresh)
           /\ ck'.counts.per[s] = ck.counts.per[s] + Cardinality(fresh)
           /\ ck'.counts.total = ck.counts.total + Cardinality(fresh)
           /\ Range(ck'.seen_hashes[s]) = Range(ck.seen_hashes[s]) \cup fresh
           /\ Len(ck'.seen_hashes[s]) = Len(ck.seen_hashes[s]) + Cardinality(fresh)
           /\ \A o \in Stars \ {s} :
                 /\ ck'.counts.per[o] = ck.counts.per[o]
                 /\ ck'.seen_hashes[o] = ck.seen_hashes[o]
           /\ lastOp'.repeat => (lastRet' = 0 /\ ck' = ck)

\* C7 - Idempotent counting: a record_hashes_for_star(s, keys) call on a star of
\* 1..5 raises the count of s and the total by exactly the number of distinct
\* non-empty keys not yet in s's seen-set, adds exactly those keys to that
\* seen-set and returns that number; the same call made again right after
\* returns 0 and leaves the checkpoint as it was.
IdempotentCounting == [][RecordStep]_vars

\* a second identical call after a first that counted a key given twice
IdempotentCountingWitness ==
    /\ lastOp.op = "record"
    /\ lastOp.star \in Stars
    /\ lastOp.repeat
    /\ lastOp.prevRet = 1
    /\ Len(lastOp.keys) = 2
    /\ lastOp.keys[1] = lastOp.keys[2]
    /\ lastRet = 0

\* C8 - the total count is the sum of the five per-star counts, after any
\* sequence of store calls.
TotalIsSum == ck.counts.total = SumOver(ck.counts.per, Stars)

\* both called stars hold counted keys, after a reload and a cursor advance
TotalIsSumWitness ==
    /\ ck.counts.per[1] >= 1
    /\ ck.counts.per[5] >= 2
    /\ ck.counts.total = 3
    /\ ck.pages_done[1] = 1
    /\ ck.completed
    /\ lastOp.op = "load"

InPhase1 == pc \in {"p1_while", "p1_push", "p1_record", "p1_inc", "p1_last"}

\* the step is the sweep's visit of the target (load, reconcile, skip or crawl)
IsVisit == pc = "sweep" /\ hist'.crashes = hist.crashes

\* the checkpoint on file holds the plan the configuration gives the target
SamePlan == file.exists /\ file.targets = Expected(group_total, split_per_star(group_total))

\* C1 - Quota monotonicity (total): while the plan is unchanged, the checkpoint's
\* total count never exceeds the plan total, in either phase and over any
\* sequence of passes, resumed ones included.
TotalWithinPlan ==
    (file.exists /\ hist.edits = 0) => file.counts.total <= group_total

\* C2 - Quota monotonicity (per star), as claimed: during Phase 1 every star's
\* count is at most the quota the checkpoint's plan holds for it.
PerStarWithinStoredQuota ==
    InPhase1 => \A s \in Stars : ck.counts.per[s] <= ck.targets.per[s]

\* a Phase 1 step that raises a star's count leaves it within the orchestrator's
\* own quota for that star
Phase1StepWithinQuota ==
    InPhase1 =>
        \A s \in Stars :
            ck'.counts.per[s] > ck.counts.per[s] =>
                ck'.counts.per[s] <= target_per_star(group_total)[s]

\* C2, amended - no Phase 1 step raises a star's count above the quota the
\* orchestrator enforces for it (the plan's per-star quota for stars 1-4; for
\* star 5 that quota plus the remainder total - 5 * per-star); a count carried
\* over above it is left as it is.
Phase1WithinQuota == [][Phase1StepWithinQuota]_vars

\* a resumed pass has filled the star's quota from a page that offered more
Phase1WithinQuotaWitness ==
    /\ pc = "p1_inc"
    /\ hist.runs = 2
    /\ ck.counts.total > ck.counts.per[loop_s]
    /\ ck.counts.per[loop_s] = target_per_star(group_total)[loop_s]
    /\ \E i \in DOMAIN reviews :
          /\ reviews[i].key \notin seen_hashes
          /\ effective_rating(reviews[i].rating, loop_s) = loop_s

\* C3 - Resume equivalence: a run that finishes after an interrupted one, with
\* no other fault and the plan unchanged, leaves the same set of accepted keys
\* in the checkpoint as the uninterrupted first run does.
ResumeEquivalence ==
    LET ref == Uninterrupted(up, group_total) IN
    (/\ pc = "stopped" /\ hist.finished = 1 /\ hist.crashes >= 1
     /\ hist.fetch_fails = 0 /\ hist.sink_fails = 0 /\ hist.edits = 0
     /\ ref.pc = "stopped")
    => sync_seen(file) = sync_seen(ref.file)

\* a sweep visit under the stored plan keeps cursors and flags
VisitKeepsCursorsStep ==
    (IsVisit /\ SamePlan) =>
        (file'.pages_done = file.pages_done /\ file'.exhausted = file.exhausted)

\* C4 - Resume from recorded cursors: a sweep visit under the plan the checkpoint
\* already holds leaves the page cursors and the exhaustion flags as the
\* previous pass wrote them.
VisitKeepsCursors == [][VisitKeepsCursorsStep]_vars

\* the visit of a completed target under a raised plan
PlanRaiseResetsStep ==
    (/\ IsVisit /\ file.exists /\ file.completed
     /\ group_total > file.targets.total /\ group_total > file.counts.total)
    => (/\ ~file'.completed
        /\ file'.exhausted = AllFalse
        /\ file'.pages_done = AllZero
        /\ file'.counts = file.counts
        /\ file'.seen_hashes = file.seen_hashes)

\* C5 - Plan-raise reset rule: the visit of a completed target whose stored plan
\* total is below the new total (itself above the total count) clears
\* completed, resets the five flags and the five cursors and keeps the counts
\* and the seen-sets.
PlanRaiseResets == [][PlanRaiseResetsStep]_vars

\* the visit of a completed target under the stored plan ends without a pass
CompletedIsSkippedStep ==
    (IsVisit /\ SamePlan /\ file.completed) => pc' = "stopped"

\* C6 - Completed is terminal: a sweep visit of a target marked completed, under
\* the plan its checkpoint holds, skips it (no pass, no network call).
CompletedIsSkipped == [][CompletedIsSkippedStep]_vars

\* C9 - At-most-once counting: over all pages, phases, filters and passes each
\* dedup key is added to the counts at most once, and the total count is the
\* number of keys so added.
CountedAtMostOnce ==
    /\ \A k \in AllKeys : hist.counted[k] <= 1
    /\ file.exists => file.counts.total = SumOver(hist.counted, AllKeys)

\* key 1 was listed under two filters and key 3 on two pages; both count once
CountedAtMostOnceWitness ==
    /\ up = UpDup
    /\ pc = "p2_inc"
    /\ loop_s = 5
    /\ ck.pages_done[5] = 1
    /\ hist.counted[1] = 1
    /\ hist.counted[3] = 1
    /\ ck.counts.total = 3

\* C10 - Retry classification: a request answered with a status other than 2xx
\* and 429 (404, 500) is the last request of its call, which ends with an error.
TerminalStatusEndsCall ==
    \A i \in DOMAIN responses :
        responses[i] \in {"404", "500"} => (i = Len(responses) /\ get_pc = "raised")

\* the call's last request, if it made one, was answered successfully
LastSucceeded == responses # <<>> /\ raised_by(responses[Len(responses)]) = "none"

\* C11 - Bounded retry: one call of _get issues at most RETRY_MAX requests; a
\* success after fewer than RETRY_MAX failed requests is returned to the caller
\* (and nothing but a success is returned); when the RETRY_MAX-th request fails
\* too, the call raises.
BoundedRetry ==
    /\ Len(responses) <= RETRY_MAX
    /\ attempt_number <= RETRY_MAX
    /\ LastSucceeded => get_pc = "returned"
    /\ get_pc = "returned" =>
          /\ LastSucceeded
          /\ \A i \in 1..(Len(responses) - 1) : raised_by(responses[i]) # "none"
    /\ (Len(responses) = RETRY_MAX /\ ~LastSucceeded) => get_pc = "raised"

\* three 429 answers, then a success, returned by the call
BoundedRetryWitness ==
    /\ responses = <<"429", "429", "429", "200">>
    /\ get_pc = "returned"
    /\ attempt_number = 4

InPhase2 == pc \in {"p2_while", "p2_push", "p2_record", "p2_inc", "p2_last"}

\* the step is a get_reviews_page call that raises
IsFetchFailure == hist'.fetch_fails = hist.fetch_fails + 1

\* a failed fetch for star loop_s changes nothing of the checkpoint and hands
\* over to a later star of the phase, to the next phase or to the completion
FetchFailureStep ==
    IsFetchFailure =>
        /\ ck' = ck /\ file' = file
        /\ collected' = collected /\ db' = db
        /\ pc' # "stopped"
        /\ (InPhase1 /\ InPhase1') => loop_s' > loop_s
        /\ (InPhase2 /\ InPhase2') => loop_s' < loop_s

\* within a pass the phases never go back to a star they have left
StarOrderStep ==
    /\ (InPhase1 /\ InPhase1') => loop_s' >= loop_s
    /\ (InPhase2 /\ InPhase2') => loop_s' <= loop_s
    /\ InPhase2 => ~InPhase1'

\* C12 - Fetch failure is local to one star: when get_reviews_page raises for
\* star s, the orchestrator leaves the count, cursor and flag of s as they are,
\* fetches no further page for s in that phase, and goes on with the next star
\* or phase; the pass is not aborted.
FetchFailureIsLocal == [][FetchFailureStep /\ StarOrderStep]_vars

\* the first pass failed on star 1 and is accepting a two-star item
FetchFailureIsLocalWitness ==
    /\ up = UpScarce
    /\ hist.runs = 1 /\ hist.crashes = 0 /\ hist.fetch_fails = 1
    /\ pc = "p1_record" /\ loop_s = 2
    /\ ck.pages_done[1] = 0 /\ ~ck.exhausted[1] /\ ck.counts.per[1] = 0

\* C13 - Sink failure does not roll back progress: when the page's cursor is
\* about to advance, every key the pass has accepted, whatever save_reviews
\* did with its batch, is in the checkpoint's seen-sets and counted.
SinkFailureKeepsProgress ==
    pc \in {"p1_inc", "p2_inc", "p1_last", "p2_last"} =>
        /\ seen_hashes \subseteq sync_seen(ck)
        /\ ck.counts.total >= Cardinality(seen_hashes)

\* the page the iteration at its last-page test has consumed lay past the end
\* of the star's listing: it held no item, and neither will any later page
PastListingEnd ==
    /\ pc \in {"p1_last", "p2_last"}
    /\ ck.pages_done[loop_s] > Len(up[loop_s].pages)

\* the step goes back to the head of the same star's loop, whose condition holds
LoopsOn ==
    /\ loop_s' = loop_s
    /\ \/ pc = "p1_last" /\ pc' = "p1_while"
             /\ want_more_for_star(ck', loop_s) /\ ~total_reached(ck')
       \/ pc = "p2_last" /\ pc' = "p2_while" /\ ~total_reached(ck')

PassTerminatesStep == PastListingEnd => ~LoopsOn

\* C14 - Pass termination: a pass issues finitely many page fetches, so an
\* iteration that has consumed a page past the end of the star's listing, which
\* changes neither a count nor a flag, does not go round the star's loop again.
PassTerminates == [][PassTerminatesStep]_vars

\* total_reached() holds or all five exhaustion flags are set
DoneCondition(d) == total_reached(d) \/ \A s \in Stars : d.exhausted[s]

\* the end of a pass sets completed exactly under the DONE condition, and no
\* other step of a pass sets it
DoneStep ==
    /\ (pc = "finish" /\ hist'.finished = hist.finished + 1) =>
          (file'.completed <=> DoneCondition(file'))
    /\ (file'.completed /\ ~file.completed) =>
          (pc = "finish" /\ DoneCondition(file'))

\* C15 - DONE condition: at the end of a pass completed is set if and only if
\* total_reached() holds or all five stars are flagged exhausted; a pass never
\* sets it while the total is unmet and some star is not flagged exhausted.
DoneCondSetsCompleted == [][DoneStep]_vars

\* a faultless pass has ended with the total unmet and star 5 not flagged
DoneCondSetsCompletedWitness ==
    /\ up = UpDup /\ group_total = RD_TOTAL_REVIEWS
    /\ pc = "stopped" /\ hist.finished = 1 /\ Faults = 0
    /\ ~file.completed /\ ~file.exhausted[5]
    /\ file.counts.total = 3

(***************************************************************************)
(* One target crawled without faults under the quota scenarios             *)
(***************************************************************************)
InitQuota ==
    /\ file = NoFile
    /\ ck = NoFile
    /\ group_total \in {RD_TOTAL_REVIEWS, OTHER_TOTAL_REVIEWS}
    /\ up \in QuotaScenarios
    /\ pc = "stopped"
    /\ loop_s = 0
    /\ collected = <<>>
    /\ taken_per_star = AllZero
    /\ seen_hashes = {}
    /\ reviews = <<>>
    /\ meta = NoMeta
    /\ kept = <<>>
    /\ db = {}
    /\ hist = NoHist
    /\ lastOp = NoOp
    /\ lastRet = 0
    /\ ApiInit
    /\ NoCall
    /\ OneTarget

NextQuota ==
    \/ StartRun \/ SweepVisit \/ CrawlStart
    \/ Phase1Fetch \/ Phase1Quit \/ Phase1Push \/ Phase1Record \/ Phase1Inc
    \/ Phase1Last
    \/ Phase2Fetch \/ Phase2Quit \/ Phase2Push \/ Phase2Record \/ Phase2Inc
    \/ Phase2Last
    \/ Finish

SpecQuota == InitQuota /\ [][NextQuota]_vars

\* the number of reviews upstream lists under star filter s
Available(u, s) == SumOver([p \in DOMAIN u[s].pages |-> Len(u[s].pages[p])], DOMAIN u[s].pages)

\* the scenario's premise: star 1 has fewer reviews than the per-star quota, on
\* a single last page, and star 5 has at least the plan's total
QuotaScenario ==
    /\ Len(up[1].pages) = 1 /\ up[1].total_pages = 1
    /\ Available(up, 1) < target_per_star(group_total)[1]
    /\ Available(up, 5) >= group_total

FirstPassDone == pc = "stopped" /\ hist.runs = 1 /\ hist.finished = 1

\* C16 - Quota scenario: on a fresh target where star 1 has n1 < q reviews on a
\* single last page and star 5 has at least T = 5q reviews, one pass ends with
\* star-1 count n1 and star 1 flagged exhausted, stars 2-4 at most q each, the
\* total count exactly T and completed set.
QuotaScenarioOutcome ==
    (FirstPassDone /\ QuotaScenario) =>
        /\ file.counts.per[1] = Available(up, 1)
        /\ file.exhausted[1]
        /\ \A s \in 2..4 : file.counts.per[s] <= target_per_star(group_total)[s]
        /\ file.counts.total = group_total
        /\ file.completed

(***************************************************************************)
(* The checkpoint store under process interruptions                        *)
(***************************************************************************)
MaxStoreCrashes == 1

DurableIdle ==
    UNCHANGED <<group_total, up, pc, loop_s, collected, taken_per_star, seen_hashes,
                reviews, meta, kept, db, lastOp, lastRet, getvars, sweepvars, purevars>>

\* the process is interrupted between two checkpoint calls
StoreCrash ==
    /\ ck.exists
    /\ hist.crashes < MaxStoreCrashes
    /\ ck' = NoFile
    /\ file' = file
    /\ hist' = [hist EXCEPT !.crashes = @ + 1]
    /\ DurableIdle

\* the process is interrupted inside the _save of a mutating call
StoreCrashInSave ==
    /\ ck.exists
    /\ hist.crashes < MaxStoreCrashes
    /\ ck' = NoFile
    /\ file' = Torn
    /\ hist' = [hist EXCEPT !.crashes = @ + 1]
    /\ DurableIdle

NextDurable == NextStore \/ StoreCrash \/ StoreCrashInSave

SpecDurable == InitStore /\ [][NextDurable]_vars

\* counts, page cursors and seen-sets of a are not smaller than those of b
NotSmaller(a, b) ==
    /\ a.counts.total >= b.counts.total
    /\ \A s \in Stars :
          /\ a.counts.per[s] >= b.counts.per[s]
          /\ a.pages_done[s] >= b.pages_done[s]
          /\ Range(b.seen_hashes[s]) \subseteq Range(a.seen_hashes[s])

\* a completed call leaves the file equal to the in-memory document; an
\* interruption leaves a file from which a reload recovers no less than the
\* last completed call had persisted
DurableStep ==
    /\ hist' = hist => file' = ck'
    /\ hist'.crashes = hist.crashes + 1 =>
          \A t \in StorePlans :
              NotSmaller(load_or_init(file', t, split_per_star(t)), file)

\* C17 - Durable progress: every mutating checkpoint call has written the full
\* in-memory checkpoint to its file before it returns, and after a crash at any
\* point followed by a reload the loaded counts, page cursors and seen-sets are
\* never smaller than those persisted by the last completed mutating call.
DurableProgress == [][DurableStep]_vars

(***************************************************************************)
(* The sweep over a catalog of several targets (Runner._process_group)     *)
(***************************************************************************)
\* what upstream lists for the product of a URL
ListingOf(url) ==
    CASE url = UrlA -> UpScarce
      [] url = UrlB -> UpBadItem
      [] OTHER -> [s \in Stars |-> EmptyListing]

Catalogs == {<<UrlB, UrlA>>, <<UrlA, UrlNoId, UrlB>>}

InitSweep ==
    /\ file = NoFile
    /\ ck = NoFile
    /\ group_total = RD_TOTAL_REVIEWS
    /\ up = ListingOf(UrlNoId)
    /\ pc = "stopped"
    /\ loop_s = 0
    /\ collected = <<>>
    /\ taken_per_star = AllZero
    /\ seen_hashes = {}
    /\ reviews = <<>>
    /\ meta = NoMeta
    /\ kept = <<>>
    /\ db = {}
    /\ hist = NoHist
    /\ lastOp = NoOp
    /\ lastRet = 0
    /\ ApiInit
    /\ NoCall
    /\ catalog \in Catalogs
    /\ sweep_i = 0
    /\ disk = NoDisk
    /\ objs = NoObjs

\* lines 262-263: the for loop takes the next URL of the catalog; it does so
\* only when the visit before has returned (an exception that leaves a visit
\* leaves _process_group and run as well)
SweepTarget ==
    /\ pc = "stopped"
    /\ hist.finished = sweep_i
    /\ sweep_i < Len(catalog)
    /\ LET here == IF sweep_i = 0 THEN disk
                   ELSE [disk EXCEPT ![progress_path(catalog[sweep_i])] = file]
           url == catalog[sweep_i + 1]
       IN /\ disk' = here
          /\ file' = here[progress_path(url)]
          /\ up' = ListingOf(url)
    /\ sweep_i' = sweep_i + 1
    /\ pc' = "sweep"
    /\ hist' = IF sweep_i = 0 THEN [hist EXCEPT !.runs = @ + 1] ELSE hist
    /\ UNCHANGED <<ck, group_total, loop_s, collected, taken_per_star, seen_hashes,
                   reviews, meta, kept, db, lastOp, lastRet, getvars, catalog, objs,
                   purevars>>

\* lines 48-52: get_product_info raises, name and brand stay None
CrawlStartInfoFail ==
    /\ pc = "crawl"
    /\ extract_product_id(catalog[sweep_i]) # NoProductId
    /\ Faults < MaxFaults
    /\ Apply(crawl_start(Cur, group_total))
    /\ hist' = [hist EXCEPT !.fetch_fails = @ + 1]
    /\ Env

NextSweep ==
    \/ SweepTarget \/ SweepVisit \/ CrawlStart \/ CrawlStartInfoFail
    \/ Phase1Fetch \/ Phase1FetchFail \/ Phase1Quit \/ Phase1Push
    \/ Phase1PushSinkFail \/ Phase1Record \/ Phase1Inc \/ Phase1Last
    \/ Phase2Fetch \/ Phase2FetchFail \/ Phase2Quit \/ Phase2Push
    \/ Phase2PushSinkFail \/ Phase2Record \/ Phase2Inc \/ Phase2Last
    \/ Finish

SpecSweep == InitSweep /\ [][NextSweep]_vars

\* the process keeps running while it can
SpecSweepFair == SpecSweep /\ WF_vars(NextSweep)

\* the sweep is outside a visit and every target of the catalog has been visited
AllVisited == pc = "stopped" /\ sweep_i = Len(catalog) /\ hist.finished = sweep_i

\* the sweep moves from one target to the next one, and whenever it is outside
\* a visit, every visit it began has returned to the loop
SweepStep ==
    /\ sweep_i' \in {sweep_i, sweep_i + 1}
    /\ sweep_i' = sweep_i + 1 => (pc' = "sweep" /\ up' = ListingOf(catalog[sweep_i']))
    /\ pc' = "stopped" => hist'.finished = sweep_i'

\* C18 - The sweep survives per-target errors: after a failed fetch, a page
\* entry that cannot be read, a failed sink call or a URL without a product id
\* in one target, the sweep still visits every remaining target of the catalog,
\* in order.
SweepSurvives == [][SweepStep]_vars /\ <>AllVisited

\* the third target is entered after a sink failure in the first one and a
\* URL without product id as the second one
SweepSurvivesWitness ==
    /\ catalog = <<UrlA, UrlNoId, UrlB>>
    /\ sweep_i = 3 /\ pc = "crawl"
    /\ hist.sink_fails = 1

\* the target the sweep is at has a URL without a product id
NoIdAtHand == sweep_i >= 1 /\ extract_product_id(catalog[sweep_i]) = NoProductId

\* while the sweep is at such a target it never reaches a fetch, accepts no
\* row, stores nothing in the sink, counts nothing and has no checkpoint file
NoIdStep ==
    NoIdAtHand' =>
        /\ pc' \in {"sweep", "crawl", "stopped"}
        /\ collected' = <<>>
        /\ sweep_i' = sweep_i => db' = db
        /\ file'.counts.total = 0
        /\ ~file'.exists

\* C19 - Identifier extraction failure: for a target URL from which no product
\* id can be derived the sweep issues no network call, accepts no row, changes
\* no quota counter and leaves no checkpoint record for that URL.
IdFailureLeavesNothing == [][NoIdStep]_vars

(***************************************************************************)
(* LinkProgress objects of two targets, called in any interleaving         *)
(***************************************************************************)
IsoCatalog == <<UrlA, UrlB>>

IsoKeyLists == {<<1>>, <<2>>}

InitIso ==
    /\ file = NoFile
    /\ ck = NoFile
    /\ group_total = RD_TOTAL_REVIEWS
    /\ up = UpFew
    /\ pc = "stopped"
    /\ loop_s = 0
    /\ collected = <<>>
    /\ taken_per_star = AllZero
    /\ seen_hashes = {}
    /\ reviews = <<>>
    /\ meta = NoMeta
    /\ kept = <<>>
    /\ db = {}
    /\ hist = NoHist
    /\ lastOp = NoOp
    /\ lastRet = 0
    /\ ApiInit
    /\ NoCall
    /\ catalog = IsoCatalog
    /\ sweep_i = 0
    /\ disk = NoDisk
    /\ objs = NoObjs

IsoIdle ==
    UNCHANGED <<file, ck, group_total, up, pc, loop_s, collected, taken_per_star,
                seen_hashes, reviews, meta, kept, db, hist, lastOp, lastRet, getvars,
                catalog, purevars>>

\* the object of target i holds d and _save has written d to self.path
Saved(i, d) ==
    /\ objs' = [objs EXCEPT ![catalog[i]] = d]
    /\ disk' = [disk EXCEPT ![progress_path(catalog[i])] = d]
    /\ sweep_i' = i

\* LinkProgress(url, total_target, per_star_target)
IsoLoad ==
    /\ \E i \in DOMAIN catalog :
          /\ ~objs[catalog[i]].exists
          /\ Saved(i, load_or_init(disk[progress_path(catalog[i])], group_total,
                                   split_per_star(group_total)))
    /\ IsoIdle

\* the caller lets go of the object
IsoRelease ==
    /\ \E i \in DOMAIN catalog :
          /\ objs[catalog[i]].exists
          /\ objs' = [objs EXCEPT ![catalog[i]] = NoFile]
          /\ sweep_i' = i
    /\ UNCHANGED disk
    /\ IsoIdle

IsoEnsureTargets ==
    /\ \E i \in DOMAIN catalog, t \in StorePlans :
          /\ objs[catalog[i]].exists
          /\ Saved(i, ensure_targets(objs[catalog[i]], t, split_per_star(t)))
    /\ IsoIdle

IsoRecord ==
    /\ \E i \in DOMAIN catalog, keys \in IsoKeyLists :
          /\ objs[catalog[i]].exists
          /\ Saved(i, record_hashes_for_star(objs[catalog[i]], 5, keys).data)
    /\ IsoIdle

IsoIncPage ==
    /\ \E i \in DOMAIN catalog :
          /\ objs[catalog[i]].exists
          /\ objs[catalog[i]].pages_done[5] < MaxStorePage
          /\ Saved(i, inc_page_done(objs[catalog[i]], 5))
    /\ IsoIdle

IsoMarkExhausted ==
    /\ \E i \in DOMAIN catalog :
          /\ objs[catalog[i]].exists
          /\ Saved(i, mark_exhausted(objs[catalog[i]], 5))
    /\ IsoIdle

IsoMarkCompleted ==
    /\ \E i \in DOMAIN catalog :
          /\ objs[catalog[i]].exists
          /\ Saved(i, mark_completed(objs[catalog[i]]))
    /\ IsoIdle

NextIso ==
    \/ IsoLoad \/ IsoRelease \/ IsoEnsureTargets \/ IsoRecord \/ IsoIncPage
    \/ IsoMarkExhausted \/ IsoMarkCompleted

SpecIso == InitIso /\ [][NextIso]_vars

\* a call on one target leaves the file and the object of every other URL as
\* they were
IsolationStep ==
    \A i \in DOMAIN catalog :
        sweep_i' = i =>
            \A v \in Urls \ {catalog[i]} :
                /\ objs'[v] = objs[v]
                /\ disk'[progress_path(v)] = disk[progress_path(v)]

\* C20 - Checkpoint isolation across targets: for two distinct target URLs,
\* any interleaving of checkpoint operations (load, reconcile, record, advance,
\* mark) on one target leaves the other target's persisted and in-memory
\* checkpoint unchanged.
CheckpointIsolation == [][IsolationStep]_vars

\* both targets hold progress of their own, the last call was on the first
CheckpointIsolationWitness ==
    /\ sweep_i = 1
    /\ objs[UrlA].counts.total = 2 /\ objs[UrlA].pages_done[5] = 0
    /\ objs[UrlB].counts.total = 0 /\ objs[UrlB].pages_done[5] = 1
    /\ objs[UrlB].exhausted[5]
    /\ disk[progress_path(UrlA)] = objs[UrlA]
    /\ disk[progress_path(UrlB)] = objs[UrlB]

(***************************************************************************)
(* util_hash.py: md5_prefix64 applied on its own                           *)
(***************************************************************************)
\* review_text[:64]
PrefixLen == 64

\* the longest tail a body carries after its first 62 characters
MaxTail == 3

\* hashlib.md5(s.encode("utf-8")).hexdigest(): the digest of the text s, taken
\* to differ for different texts
md5(s) == <<"md5", s>>

\* faulty variant: the whole body enters the key
md5_whole_body(url, reviewer, review_date, review_text) ==
    md5(url \o <<"|">> \o reviewer \o <<"|">> \o review_date \o <<"|">> \o review_text)

\* md5_prefix64 on str arguments (make_row passes the str fields of a Review):
\* texts are sequences of characters
md5_prefix64(url, reviewer, review_date, review_text) ==
    LET prefix == SubSeq(review_text, 1, IF Len(review_text) < PrefixLen
                                         THEN Len(review_text) ELSE PrefixLen)
        base == url \o <<"|">> \o reviewer \o <<"|">> \o review_date \o <<"|">> \o prefix
    IN md5(base)

Texts(alphabet, n) == UNION {[1..m -> alphabet] : m \in 0..n}

\* bodies around the 64th character: 62 characters and a tail, and short ones
Bodies ==
    {[i \in 1..62 |-> "t"] \o tail : tail \in Texts({"x", "y"}, MaxTail) \ {<<>>}}
        \cup {<<>>, <<"x">>}

HashInputs ==
    [url : {<<"u", "1">>, <<"u", "2">>},
     reviewer : {<<"r">>, <<"r", "|">>},
     review_date : {<<"d">>, <<"|", "d">>},
     review_text : Bodies]

InitHash ==
    /\ file = NoFile
    /\ ck = NoFile
    /\ group_total = RD_TOTAL_REVIEWS
    /\ up = UpFew
    /\ pc = "stopped"
    /\ loop_s = 0
    /\ collected = <<>>
    /\ taken_per_star = AllZero
    /\ seen_hashes = {}
    /\ reviews = <<>>
    /\ meta = NoMeta
    /\ kept = <<>>
    /\ db = {}
    /\ hist = NoHist
    /\ lastOp = NoOp
    /\ lastRet = 0
    /\ ApiInit
    /\ OneTarget
    /\ call_args \in HashInputs \X HashInputs
    /\ call_ret = <<>>

PureIdle ==
    UNCHANGED <<file, ck, group_total, up, pc, loop_s, collected, taken_per_star,
                seen_hashes, reviews, meta, kept, db, hist, lastOp, lastRet, getvars,
                sweepvars>>

\* make_row, line 81, for two page items
HashCall ==
    /\ call_ret = <<>>
    /\ call_ret' = [i \in 1..2 |->
                      md5_prefix64(call_args[i].url, call_args[i].reviewer,
                                   call_args[i].review_date, call_args[i].review_text)]
    /\ UNCHANGED call_args
    /\ PureIdle

NextHash == HashCall

SpecHash == InitHash /\ [][NextHash]_vars

\* two bodies agree on their first 64 characters
SamePrefix(a, b) ==
    \A i \in 1..PrefixLen :
        /\ i <= Len(a) <=> i <= Len(b)
        /\ i <= Len(a) => a[i] = b[i]

\* C21 - Dedup key stability: the key depends on url, reviewer, review date and
\* the first 64 characters of the body only: equal inputs give equal keys, and
\* bodies that agree on their first 64 characters give the same key whatever
\* follows.
KeyStability ==
    call_ret # <<>> =>
        ((/\ call_args[1].url = call_args[2].url
          /\ call_args[1].reviewer = call_args[2].reviewer
          /\ call_args[1].review_date = call_args[2].review_date
          /\ SamePrefix(call_args[1].review_text, call_args[2].review_text))
            => call_ret[1] = call_ret[2])

\* two bodies of 64 and 65 characters that differ in the 65th only
KeyStabilityWitness ==
    /\ call_ret # <<>>
    /\ call_args[1].url = call_args[2].url
    /\ call_args[1].reviewer = call_args[2].reviewer
    /\ call_args[1].review_date = call_args[2].review_date
    /\ Len(call_args[1].review_text) = 64 /\ Len(call_args[2].review_text) = 65
    /\ SamePrefix(call_args[1].review_text, call_args[2].review_text)
    /\ call_ret[1] = call_ret[2]

\* the step is a page request of Phase 2 for star loop_s, answered or failed
IsPhase2Request == pc = "p2_while" /\ (pc' = "p2_push" \/ IsFetchFailure)

\* upstream has reported, on a page already fetched, that star s is at its last page
LastPageReported(s) ==
    /\ up[s].total_pages # 0
    /\ ck.pages_done[s] >= 1
    /\ ck.pages_done[s] >= up[s].total_pages

Phase2RequestStep ==
    IsPhase2Request => (~ck.exhausted[loop_s] /\ ~LastPageReported(loop_s))

\* C22 - Phase 2 honours exhaustion: Phase 2 requests no page for a star whose
\* exhaustion flag is set, and none for a star whose last page upstream has
\* reported as reached.
Phase2HonoursExhaustion == [][Phase2RequestStep]_vars

\* the step is a page request, answered or failed
IsPageRequest ==
    /\ pc \in {"p1_while", "p2_while"}
    /\ pc' \in {"p1_push", "p2_push"} \/ IsFetchFailure

\* stars go up in Phase 1 and down one by one from 5 in Phase 2, which follows
\* Phase 1 and is entered with the total unmet; no page is requested once the
\* total is reached
PhaseOrderStep ==
    /\ (InPhase1 /\ InPhase1') => loop_s' >= loop_s
    /\ (InPhase2 /\ InPhase2') => loop_s' \in {loop_s, loop_s - 1}
    /\ InPhase2 => ~InPhase1'
    /\ (~InPhase2 /\ InPhase2') =>
          (pc \in {"crawl", "p1_while", "p1_last"} /\ loop_s' = 5 /\ ~total_reached(ck'))
    /\ (~InPhase1 /\ InPhase1') => pc = "crawl"
    /\ IsPageRequest => ~total_reached(ck)

\* C23 - Phase order: within one pass Phase-1 fetches visit the stars in the
\* order 1..5, Phase-2 fetches occur only after Phase 1 has finished and only
\* if the total is still unmet, visiting stars 5..1, and no fetch is issued
\* once total_reached() holds.
PhaseOrder == [][PhaseOrderStep]_vars

\* Phase 2 has come down to star 4 and its page is in flight
PhaseOrderWitness ==
    /\ up = UpDup /\ group_total = RD_TOTAL_REVIEWS
    /\ hist.runs = 1 /\ Faults = 0
    /\ pc = "p2_push" /\ loop_s = 4
    /\ ck.counts.total = 3

(***************************************************************************)
(* Two runs over one target whose four-star listing is down in the first   *)
(***************************************************************************)
InitOutage ==
    /\ file = NoFile
    /\ ck = NoFile
    /\ group_total \in {RD_TOTAL_REVIEWS, DEFAULT_TOTAL}
    /\ up = UpLate
    /\ pc = "stopped"
    /\ loop_s = 0
    /\ collected = <<>>
    /\ taken_per_star = AllZero
    /\ seen_hashes = {}
    /\ reviews = <<>>
    /\ meta = NoMeta
    /\ kept = <<>>
    /\ db = {}
    /\ hist = NoHist
    /\ lastOp = NoOp
    /\ lastRet = 0
    /\ ApiInit
    /\ NoCall
    /\ OneTarget

\* lines 145-147: get_reviews_page raises for the four-star listing, down in run 1
Phase1Outage ==
    /\ pc = "p1_while"
    /\ want_more_for_star(ck, loop_s) /\ ~total_reached(ck)
    /\ loop_s = 4 /\ hist.runs = 1
    /\ Apply(phase1_while(Cur, up, FALSE))
    /\ hist' = [hist EXCEPT !.fetch_fails = @ + 1]
    /\ Env

\* lines 193-195
Phase2Outage ==
    /\ pc = "p2_while"
    /\ ~total_reached(ck)
    /\ loop_s = 4 /\ hist.runs = 1
    /\ Apply(phase2_while(Cur, up, FALSE))
    /\ hist' = [hist EXCEPT !.fetch_fails = @ + 1]
    /\ Env

NextOutage ==
    \/ StartRun \/ SweepVisit \/ CrawlStart
    \/ Phase1Fetch \/ Phase1Outage \/ Phase1Quit \/ Phase1Push \/ Phase1Record
    \/ Phase1Inc \/ Phase1Last
    \/ Phase2Fetch \/ Phase2Outage \/ Phase2Quit \/ Phase2Push \/ Phase2Record
    \/ Phase2Inc \/ Phase2Last
    \/ Finish

SpecOutage == InitOutage /\ [][NextOutage]_vars

\* the keys Phase 1 should accept from a page under filter s, item by item:
\* effective rating s, key not seen for the target, star s below its quota,
\* total below the cap (n: accepted from this page so far)
RECURSIVE phase1_rule(_, _, _, _, _)
phase1_rule(batch, i, s, seen, acc) ==
    IF i > Len(batch) THEN acc
    ELSE LET n == Len(acc)
             accept == /\ effective_rating(batch[i].rating, s) = s
                       /\ batch[i].key \notin seen
                       /\ ck.counts.per[s] + n < target_per_star(group_total)[s]
                       /\ ck.counts.total + n < group_total
         IN IF accept
            THEN phase1_rule(batch, i + 1, s, seen \cup {batch[i].key},
                             Append(acc, batch[i].key))
            ELSE phase1_rule(batch, i + 1, s, seen, acc)

\* the step is push_with_quota on the page in flight, in a behaviour without
\* sink failure
IsPhase1Push ==
    /\ pc = "p1_push" /\ pc' \in {"p1_record", "p1_inc"}
    /\ hist'.sink_fails = 0

\* C24 - Phase 1 acceptance rule: under filter s an item is accepted if and
\* only if its effective rating equals s, its key is not yet seen for the
\* target, star s is below its quota and the total cap is not reached.
Phase1AcceptanceRule ==
    [][IsPhase1Push => kept' = phase1_rule(reviews, 1, loop_s, seen_hashes, <<>>)]_vars

\* the keys Phase 2 should accept from a page under filter s, item by item:
\* effective rating s, key not seen for the target, total below the cap
RECURSIVE phase2_rule(_, _, _, _, _)
phase2_rule(batch, i, s, seen, acc) ==
    IF i > Len(batch) THEN acc
    ELSE LET n == Len(acc)
             accept == /\ effective_rating(batch[i].rating, s) = s
                       /\ batch[i].key \notin seen
                       /\ ck.counts.total + n < group_total
         IN IF accept
            THEN phase2_rule(batch, i + 1, s, seen \cup {batch[i].key},
                             Append(acc, batch[i].key))
            ELSE phase2_rule(batch, i + 1, s, seen, acc)

\* the step is the Phase 2 accept loop on the page in flight, in a behaviour
\* without sink failure
IsPhase2Push ==
    /\ pc = "p2_push" /\ pc' \in {"p2_record", "p2_inc"}
    /\ hist'.sink_fails = 0

\* C25 - Phase 2 acceptance rule: under filter s an item is accepted if and
\* only if its effective rating equals s, its key is not yet seen for the
\* target and the total cap is not reached, whatever the quota of s; the
\* page in flight is the one after the stored cursor.
Phase2AcceptanceRule ==
    [][IsPhase2Push =>
          /\ kept' = phase2_rule(reviews, 1, loop_s, seen_hashes, <<>>)
          /\ meta.current_page = ck.pages_done[loop_s] + 1]_vars

\* Phase 1 leaves star 5 for Phase 2 or the completion without a failed fetch
IsPhase1LeaveFive ==
    /\ pc = "p1_while" /\ loop_s = 5
    /\ pc' \in {"p2_while", "finish"}
    /\ ~IsFetchFailure

RemainderStep ==
    /\ IsPhase1LeaveFive =>
          \/ ck.counts.per[5] >= target_per_star(group_total)[5]
          \/ ck.exhausted[5]
          \/ ck.counts.total >= group_total
    /\ pc' = "p1_while" =>
          /\ ck'.targets.total = group_total
          /\ ck'.targets.per = target_per_star(group_total)

\* C26 - Remainder goes to five stars: the plan's caps are floor(T/5) for
\* stars 1-4 and floor(T/5) + (T mod 5) for star 5; Phase 1 leaves star 5
\* only when its count has reached that cap, star 5 is exhausted or the total
\* is reached; the plan stored in the checkpoint is the enforced plan.
RemainderToFiveStars == [][RemainderStep]_vars

\* the step is a get_reviews_page call that returns a page
IsPageFetched ==
    /\ pc \in {"p1_while", "p2_while"}
    /\ pc' \in {"p1_push", "p2_push"}

\* the step is the inc_page_done call that follows a fetched page
IsIncPage ==
    /\ pc \in {"p1_inc", "p2_inc"}
    /\ pc' \in {"p1_last", "p2_last"}

CursorStep ==
    /\ IsPageFetched =>
          /\ meta'.current_page = ck.pages_done[loop_s] + 1
          /\ ck'.pages_done = ck.pages_done
    /\ IsFetchFailure => ck'.pages_done = ck.pages_done
    /\ IsIncPage =>
          /\ ck'.pages_done = [ck.pages_done EXCEPT ![loop_s] = @ + 1]
          /\ ck'.pages_done[loop_s] = meta.current_page
    /\ ((InPhase1 \/ InPhase2) /\ (InPhase1' \/ InPhase2') /\ ~IsIncPage) =>
          ck'.pages_done = ck.pages_done
    /\ (pc = "p1_last" /\ last_page(meta) /\ pc' # "stopped") =>
          /\ ck'.exhausted[loop_s]
          /\ file'.exhausted[loop_s]
          /\ ~(pc' = "p1_while" /\ loop_s' = loop_s)

EntryOf(values, n) == IF values = <<>> THEN Direct ELSE values[(n % Len(values)) + 1]

\* C28 - Round-robin rotation: the n-th request attempt of a client (retries
\* counted, n from 0) uses identity entry n mod |identity pool| and origin
\* entry n mod |origin pool|, a direct connection when the origin pool is
\* empty; each rotator has advanced by one per attempt, whatever the other
\* did; no origin binding has two connection contexts.
RoundRobin ==
    /\ \A n \in 1..Len(sent) :
          /\ sent[n].ua = EntryOf(pools.ua, n - 1)
          /\ sent[n].proxy = EntryOf(pools.proxy, n - 1)
    /\ ua_idx = Len(sent) % Len(pools.ua)
    /\ pools.proxy # <<>> => proxy_idx = Len(sent) % Len(pools.proxy)
    /\ \A i, j \in DOMAIN clients : clients[i] = clients[j] => i = j
    /\ \A n \in 1..Len(sent) : \E i \in DOMAIN clients : clients[i] = sent[n].proxy

\* five attempts, one of them a retry, over three identities and two origins:
\* both rotators have wrapped around, at different places
RoundRobinWitness ==
    /\ Len(sent) = 5 /\ Len(pools.ua) = 3 /\ pools.proxy = <<1, 2>>
    /\ attempt_number > 1
    /\ sent[4].ua = 1 /\ sent[5].proxy = 1
    /\ Len(clients) = 2

(***************************************************************************)
(* _load_or_init on a persisted document with one damaged part             *)
(***************************************************************************)
\* checkpoints as a pass leaves them: a completed one and one in progress
Persisted ==
    { [Base(RD_TOTAL_REVIEWS, 1) EXCEPT
          !.completed = TRUE,
          !.counts = [per |-> <<1, 1, 0, 1, 2>>, total |-> 5],
          !.pages_done = <<1, 1, 1, 1, 2>>,
          !.exhausted = <<TRUE, TRUE, TRUE, TRUE, FALSE>>,
          !.seen_hashes = << <<1>>, <<2>>, <<>>, <<3>>, <<4, 6>> >>],
      [Base(DEFAULT_TOTAL, DEFAULT_PER_STAR) EXCEPT
          !.counts = [per |-> <<2, 0, 1, 0, 0>>, total |-> 3],
          !.pages_done = <<2, 1, 1, 0, 0>>,
          !.exhausted = <<FALSE, TRUE, FALSE, FALSE, FALSE>>,
          !.seen_hashes = << <<1, 2>>, <<>>, <<5>>, <<>>, <<>> >>] }

InitLoad ==
    /\ file = NoFile
    /\ ck = NoFile
    /\ group_total = RD_TOTAL_REVIEWS
    /\ up = UpFew
    /\ pc = "stopped"
    /\ loop_s = 0
    /\ collected = <<>>
    /\ taken_per_star = AllZero
    /\ seen_hashes = {}
    /\ reviews = <<>>
    /\ meta = NoMeta
    /\ kept = <<>>
    /\ db = {}
    /\ hist = NoHist
    /\ lastOp = NoOp
    /\ lastRet = 0
    /\ ApiInit
    /\ OneTarget
    /\ call_args \in Persisted \X Damages
    /\ call_ret = <<>>

\* LinkProgress(url, total, per_star) with the plan the document holds
LoadCall ==
    /\ call_ret = <<>>
    /\ call_ret' = <<load_damaged(call_args[1], call_args[2],
                                  call_args[1].targets.total, call_args[1].targets.per[1])>>
    /\ UNCHANGED call_args
    /\ PureIdle

NextLoad == LoadCall

SpecLoad == InitLoad /\ [][NextLoad]_vars

\* the document with the damaged part replaced by its default
Repaired(f, dmg) ==
    LET e == dmg.entry
    IN CASE dmg.part = "counts" ->
              IF e = 0 THEN [f EXCEPT !.counts = [per |-> AllZero, total |-> 0]]
              ELSE IF e = 6 THEN [f EXCEPT !.counts.total = 0]
              ELSE [f EXCEPT !.counts.per[e] = 0]
         [] dmg.part = "pages_done" ->
              IF e = 0 THEN [f EXCEPT !.pages_done = AllZero]
              ELSE [f EXCEPT !.pages_done[e] = 0]
         [] dmg.part = "exhausted" ->
              IF e = 0 THEN [f EXCEPT !.exhausted = AllFalse]
              ELSE [f EXCEPT !.exhausted[e] = FALSE]
         [] OTHER ->
              IF e = 0 THEN [f EXCEPT !.seen_hashes = [s \in Stars |-> <<>>]]
              ELSE [f EXCEPT !.seen_hashes[e] = <<>>]

\* C29 - Load repairs, never discards: loading a persisted checkpoint with one
\* substructure, or one entry of one, missing or malformed gives the persisted
\* document with that part replaced by its default and every other field as
\* persisted.
LoadRepairs ==
    call_ret # <<>> => call_ret[1] = Repaired(call_args[1], call_args[2])

\* upstream reports a last page for every star
ReportsLastPage(u) == \A s \in Stars : u[s].total_pages # 0

\* the visit of a target an earlier pass marked completed, in a run of the
\* process without failure and without a change of plan
StaysCompletedStep ==
    (/\ IsVisit /\ Faults = 0 /\ hist.edits = 0
     /\ ReportsLastPage(up)
     /\ file.exists /\ file.completed)
    => (pc' = "stopped" /\ file'.completed)

\* C30 - Eventual completion: with a finite upstream that reports its last
\* pages and never fails, and an unchanged plan, once a pass has set completed
\* the target stays completed and every later sweep visit skips it, also when
\* upstream holds fewer reviews than the plan total.
CompletedForGood == [][StaysCompletedStep]_vars

\* the checkpoint document d counts, for each star, the entries of that star's
\* seen-set, and no key is listed twice, in one seen-set or in two
Mirrors(d) ==
    LET all == d.seen_hashes[1] \o d.seen_hashes[2] \o d.seen_hashes[3]
               \o d.seen_hashes[4] \o d.seen_hashes[5]
    IN /\ \A s \in Stars : d.counts.per[s] = Len(d.seen_hashes[s])
       /\ \A i, j \in DOMAIN all : all[i] = all[j] => i = j

\* C31 - Counts mirror the seen-sets: in every state the orchestrator reaches
\* from a fresh checkpoint, the count of each star equals the number of keys
\* in that star's seen-set, and the five seen-sets are pairwise disjoint, in
\* the file and in the document the pass holds.
CountsMirrorSeen ==
    /\ Mirrors(file) /\ Mirrors(ck)
    /\ [][(file' # file \/ ck' # ck) => (Mirrors(file') /\ Mirrors(ck'))]_vars

\* key 1, listed without a rating under filters 4 and 5, was recorded under
\* star 4; the pass has since recorded keys of the five-star pages that list
\* it again, two of them in one batch
CountsMirrorSeenWitness ==
    /\ up = UpDup /\ pc = "finish"
    /\ 1 \in Range(ck.seen_hashes[4])
    /\ ck.pages_done[5] = 2
    /\ ck.counts.per[5] >= 2

\* the step hands an accepted batch to the sink, which returns
IsSinkCall ==
    /\ pc \in {"p1_push", "p2_push"}
    /\ pc' \in {"p1_record", "p2_record"}

\* the step is the record_hashes_for_star call on the batch the sink was given
IsRecordKept ==
    /\ pc \in {"p1_record", "p2_record"}
    /\ pc' \in {"p1_inc", "p2_inc"}

\* the keys of all five seen-sets of document d
SeenKeys(d) == UNION {{d.seen_hashes[s][i] : i \in DOMAIN d.seen_hashes[s]} : s \in Stars}

FlushOrderStep ==
    /\ IsSinkCall =>
          /\ kept' # <<>>
          /\ ck' = ck
          /\ hist'.sink_fails = hist.sink_fails =>
                {kept'[i] : i \in DOMAIN kept'} \subseteq db'
    /\ ((InPhase1 \/ InPhase2) /\ (InPhase1' \/ InPhase2')
        /\ ck'.seen_hashes # ck.seen_hashes) =>
          /\ IsRecordKept
          /\ SeenKeys(ck') = SeenKeys(ck) \cup {kept[i] : i \in DOMAIN kept}
          /\ ck'.pages_done = ck.pages_done
    /\ IsIncPage => {kept[i] : i \in DOMAIN kept} \subseteq SeenKeys(ck)

\* C32 - Flush ordering: for every fetched page the accepted batch goes to the
\* sink first, its keys are recorded in the checkpoint next and only then the
\* page cursor advances: the seen-sets grow only by keys the sink was given,
\* and no cursor moves past a page while keys accepted from it are absent from
\* the checkpoint.
FlushOrdering == [][FlushOrderStep]_vars

====
